---- MODULE Spec2Model ----
(***************************************************************************)
(* NanoVNA-Saver: the sweep plan (Sweep), the acquisition worker           *)
(* (SweepWorker) and the host's serial/data locking (NanoVNASaver).        *)
(*                                                                         *)
(* Specifications:                                                         *)
(*   SpecPlan  - Sweep construction and get_index_range over bounded args  *)
(*   SpecRead  - one call of SweepWorker.readData                          *)
(*   Spec      - SweepWorker.run() started by the host, one run at a time  *)
(*   SpecData  - the same, with the host displaying data on each update    *)
(*   SpecHost  - GUI thread, thread pool and serial port behind serialLock *)
(*   SpecAvg   - the averaging of one segment's repeats                      *)
(*   SpecCal   - the calibration window's operations and the worker's        *)
(*               applyCalibration                                            *)
(*   SpecLookup - correct11 and correct21 on a calculated calibration        *)
(***************************************************************************)
EXTENDS Integers, Sequences, FiniteSets, TLC

(***************************************************************************)
(* Bounds of the model.                                                    *)
(***************************************************************************)
MaxFreq   == 9      \* largest frequency (Hz) given to Sweep()
MaxPoints == 3      \* largest points-per-segment given to Sweep()
MaxSweeps == 3      \* largest segment count given to Sweep()

MaxDatapoints == 2  \* largest vna.datapoints of the simulated instrument
MaxSegments == 2    \* largest value typed into the sweep count field
MaxAverages == 2    \* number of averages set when averaging is enabled
MaxRuns   == 2      \* runs of the worker started by the host
MaxPasses == 2      \* passes over the segments in one continuous run
MaxThreads == 2     \* largest maxThreadCount of the host's QThreadPool
MaxQueued == 1      \* runnables waiting in the pool's queue
MaxAxis == 3        \* most reference frequencies of a lookup in SpecLookup
MaxLookupFreq == 12 \* largest frequency of SpecLookup, in units of 10**9 Hz
MaxCalPoints == 2   \* most points of a sweep saved as a calibration standard
MaxRepeats == 5     \* averaging repeats of one segment in SpecAvg
MaxLines == 3       \* lines of a calibration file in SpecFile
MaxDataLines == 2   \* data lines of a Touchstone file in SpecTouchstone
MaxOptions == 3     \* options of an options line in SpecTouchstone
MaxMag == 5         \* largest |re|, |im| of a sample given to RFTools in SpecRF

VARIABLES
    p_args,     \* the arguments of the Sweep(...) call
    p_sweep,    \* the constructed Sweep object, or NoObject
    p_exc,      \* exception raised by the constructor ("none" when it returned)
    p_ranges,   \* results of get_index_range(0), get_index_range(1), ...
    w,          \* the SweepWorker object's attributes (self.*)
    app,        \* the host application's fields the worker reads and writes
    vna,        \* the instrument session as the worker sees it
    loc,        \* local variables of run() and of the methods it is inside
    pc,         \* position of the worker thread in run()
    sig,        \* signals emitted / exception that left run()
    env,        \* run, pass and epoch counters of the environment
    host,       \* the host window: serial port, serialLock, buttons, GUI thread
    thr         \* the pool's threads: where each one is in run()

planVars == <<p_args, p_sweep, p_exc, p_ranges>>
workVars == <<w, app, vna, loc, pc, sig, env>>
hostVars == <<host, thr>>
vars == <<planVars, workVars, hostVars>>

NoObject == [none |-> TRUE]

Abs(x) == IF x < 0 THEN -x ELSE x

\* Python int(a / b) for integers a, b (b # 0): true division, truncated
\* toward zero.
TruncDiv(a, b) ==
    IF (a >= 0) = (b > 0) THEN Abs(a) \div Abs(b) ELSE -(Abs(a) \div Abs(b))

(***************************************************************************)
(* class Sweep                                                             *)
(***************************************************************************)
\* Sweep.stepsize: int(span / (points * sweeps - 1)); the division raises
\* ZeroDivisionError when points * sweeps = 1.
stepsize_mut(span, points, sweeps) ==
    IF points * sweeps = 0
    THEN [exc |-> "ZeroDivisionError", step |-> 0]
    ELSE [exc |-> "none", step |-> TruncDiv(span, points * sweeps)]

stepsize(span, points, sweeps) ==
    IF points * sweeps - 1 = 0
    THEN [exc |-> "ZeroDivisionError", step |-> 0]
    ELSE [exc |-> "none", step |-> TruncDiv(span, points * sweeps - 1)]

\* Sweep.check: TRUE when the settings are legal (no ValueError).
check(s) ==
    /\ s.sweeps > 0
    /\ s.points > 0
    /\ s.start > 0
    /\ s.end > 0
    /\ s.step >= 1

\* Sweep.__init__: the object, or the exception that left the constructor.
Sweep(start, end, points, sweeps) ==
    LET span == end - start
        st   == stepsize(span, points, sweeps)
        obj  == [start |-> start, end |-> end, points |-> points,
                 sweeps |-> sweeps, span |-> span, step |-> st.step]
    IN  IF st.exc # "none" THEN [exc |-> st.exc, obj |-> NoObject]
        ELSE IF ~check(obj) THEN [exc |-> "ValueError", obj |-> NoObject]
        ELSE [exc |-> "none", obj |-> obj]

\* Sweep.__eq__
SweepEq(a, b) ==
    /\ a.start = b.start
    /\ a.end = b.end
    /\ a.points = b.points
    /\ a.sweeps = b.sweeps

\* Sweep.get_index_range
get_index_range_mut(s, index) ==
    LET start == s.start + index * s.points * s.step
    IN  <<start, start + s.points * s.step>>

get_index_range(s, index) ==
    LET start == s.start + index * s.points * s.step
        end   == start + (s.points - 1) * s.step
    IN  <<start, end>>

\* math.sqrt on the samples of SpecRF, whose re**2 + im**2 is a square
sqrt(n) == CHOOSE m \in 0 .. n : m * m = n

\* RFTools.gain: 20 * log10(mag) for a positive magnitude, the number 0
\* otherwise.  The logarithm is left unevaluated.
gain(data) ==
    LET mag == sqrt(data[2] * data[2] + data[3] * data[3])
    IN  IF mag > 0
        THEN [kind |-> "20*log10", of |-> mag]
        ELSE [kind |-> "number", of |-> 0]

\* RFTools.calculateVSWR: (1 + mag) / (1 - mag) as numerator and
\* denominator, 1 when the division raised ZeroDivisionError.
calculateVSWR_mut(data) ==
    LET mag == sqrt(data[2] * data[2] + data[3] * data[3])
    IN  IF 1 - mag = 0 THEN <<1, 1>> ELSE <<mag, 1 - mag>>

calculateVSWR(data) ==
    LET mag == sqrt(data[2] * data[2] + data[3] * data[3])
    IN  IF 1 - mag = 0 THEN <<1, 1>> ELSE <<1 + mag, 1 - mag>>

(***************************************************************************)
(* The simulated instrument.  Samples are integers in units of 1/60, so    *)
(* that means over up to three repeats stay integral; the plausibility     *)
(* bound 9.5 of readData is ValidLimit.                                    *)
(***************************************************************************)
ValidLimit == 570
MaxTries   == 10

\* one line of an instrument response: f fields when split on " ", and
\* whether float() accepts the two fields a and b
Line2(a, b)  == [f |-> 2, num |-> TRUE, a |-> a, b |-> b]
LineNonNum   == [f |-> 2, num |-> FALSE, a |-> 0, b |-> 0]
LineOneField == [f |-> 1, num |-> TRUE, a |-> 0, b |-> 0]

\* frequencies of the instrument's current sweep window
DevFreqs(dev) ==
    LET n    == dev.datapoints
        step == IF n > 1 THEN (dev.stop - dev.start) \div (n - 1) ELSE 0
    IN  [j \in 1 .. n |-> dev.start + (j - 1) * step]

\* what the instrument measures on channel ch at frequency f in epoch e
GoodLine(ch, f, e) == IF ch = 0 THEN Line2(6 * e, 6 * f) ELSE Line2(6 * f, 6 * e)

ReplaceAt(seq, idx, x) == [j \in 1 .. Len(seq) |-> IF j = idx THEN x ELSE seq[j]]

\* the response to "data <ch>" of each kind the simulated instrument gives
Response(kind, ch, dev, e) ==
    LET fs   == DevFreqs(dev)
        n    == Len(fs)
        good == [j \in 1 .. n |-> GoodLine(ch, fs[j], e)]
    IN  CASE kind = "good"   -> good
          [] kind = "edge"   -> ReplaceAt(good, 1, Line2(ValidLimit, -ValidLimit))
          [] kind = "outA"   -> ReplaceAt(good, 1, Line2(ValidLimit + 6, 0))
          [] kind = "outB"   -> ReplaceAt(good, n, Line2(0, -(ValidLimit + 6)))
          [] kind = "nonnum" -> ReplaceAt(good, 1, LineNonNum)
          [] kind = "split"  -> ReplaceAt(good, n, LineOneField)
          [] kind = "short"  -> SubSeq(good, 1, n - 1)

AllKinds == {"good", "edge", "outA", "outB", "nonnum", "split", "short"}

\* the response to "frequencies"
FreqResponse(kind, dev) ==
    IF kind = "short" THEN SubSeq(DevFreqs(dev), 1, dev.datapoints - 1)
    ELSE DevFreqs(dev)

(***************************************************************************)
(* class Calibration.  Complex numbers are pairs <<re, im>> of whole        *)
(* numbers; an error term is kept as the numerator and the denominator of   *)
(* the quotient that computes it.                                           *)
(***************************************************************************)
CAdd(a, b) == <<a[1] + b[1], a[2] + b[2]>>
CSub(a, b) == <<a[1] - b[1], a[2] - b[2]>>
CMul(a, b) == <<a[1] * b[1] - a[2] * b[2], a[1] * b[2] + a[2] * b[1]>>
CNeg(a) == <<0 - a[1], 0 - a[2]>>
CZero == <<0, 0>>
COne == <<1, 0>>

\* the reflection coefficients of the ideal standards
shortIdeal == <<-1, 0>>
openIdeal == <<1, 0>>
loadIdeal == <<0, 0>>

\* an element of [np.complex] * n, and a computed term
Placeholder == [kind |-> "np.complex", num |-> CZero, den |-> COne]
Quotient(num, den) == [kind |-> "term", num |-> num, den |-> den]

\* Calibration(): no standards, no terms, not calculated
CalibrationInit ==
    [s11short |-> <<>>, s11open |-> <<>>, s11load |-> <<>>,
     s21through |-> <<>>, s21isolation |-> <<>>,
     frequencies |-> <<>>, e00 |-> <<>>, e11 |-> <<>>, deltaE |-> <<>>,
     e30 |-> <<>>, e10e32 |-> <<>>, isCalculated |-> FALSE]

isValid1Port_mut(cal) == TRUE
isValid1Port(cal) ==
    Len(cal.s11short) > 0 /\ Len(cal.s11open) > 0 /\ Len(cal.s11load) > 0

isValid2Port(cal) ==
    Len(cal.s21through) > 0 /\ Len(cal.s21isolation) > 0 /\ isValid1Port(cal)

\* the denominator and the three numerators of calculateCorrections
Denominator(g1, g2, g3, gm1, gm2, gm3) ==
    CSub(CSub(CAdd(CMul(CMul(g1, CSub(g2, g3)), gm1), CMul(CMul(g2, g3), gm2)),
              CMul(CMul(g2, g3), gm3)),
         CMul(CSub(CMul(g2, gm2), CMul(g3, gm3)), g1))

Numerator00_mut(g1, g2, g3, gm1, gm2, gm3) == gm1
Numerator00(g1, g2, g3, gm1, gm2, gm3) ==
    CNeg(CSub(CMul(CMul(CSub(CMul(g2, gm3), CMul(g3, gm3)), g1), gm2),
              CMul(CSub(CSub(CMul(CMul(g2, g3), gm2), CMul(CMul(g2, g3), gm3)),
                        CMul(CSub(CMul(g3, gm2), CMul(g2, gm3)), g1)),
                   gm1)))

Numerator11(g1, g2, g3, gm1, gm2, gm3) ==
    CSub(CAdd(CSub(CMul(CSub(g2, g3), gm1), CMul(g1, CSub(gm2, gm3))),
              CMul(g3, gm2)),
         CMul(g2, gm3))

NumeratorDeltaE(g1, g2, g3, gm1, gm2, gm3) ==
    CNeg(CAdd(CMul(CAdd(CSub(CMul(g1, CSub(gm2, gm3)), CMul(g2, gm2)),
                        CMul(g3, gm3)),
                   gm1),
              CMul(CSub(CMul(g2, gm3), CMul(g3, gm3)), gm2)))

\* the two-port terms of index i: e30, and
\* e10e32 = (s21m - e30) * (1 - e11*e11)
Term30(cal, i) ==
    Quotient(<<cal.s21isolation[i][2], cal.s21isolation[i][3]>>, COne)

Term10e32(cal, i) ==
    LET e30  == <<cal.s21isolation[i][2], cal.s21isolation[i][3]>>
        s21m == <<cal.s21through[i][2], cal.s21through[i][3]>>
        n    == cal.e11[i].num
        d    == cal.e11[i].den
    IN  Quotient(CMul(CSub(s21m, e30), CSub(CMul(d, d), CMul(n, n))),
                 CMul(d, d))

\* calculateCorrections' loop from index i on, with the ideal standards:
\* ret is what the call returns ("raised" when an exception leaves it)
RECURSIVE calculateCorrections_loop(_, _)
calculateCorrections_loop(cal, i) ==
    IF i > Len(cal.s11short)
    THEN [ret |-> "True", exc |-> "none",
          cal |-> [cal EXCEPT !.isCalculated = TRUE]]
    ELSE LET c1 == [cal EXCEPT !.frequencies[i] = cal.s11short[i][1]]
         IN  IF i > Len(cal.s11open) \/ i > Len(cal.s11load)
             THEN [ret |-> "raised", exc |-> "IndexError", cal |-> c1]
             ELSE LET g1  == shortIdeal
                      g2  == openIdeal
                      g3  == loadIdeal
                      gm1 == <<cal.s11short[i][2], cal.s11short[i][3]>>
                      gm2 == <<cal.s11open[i][2], cal.s11open[i][3]>>
                      gm3 == <<cal.s11load[i][2], cal.s11load[i][3]>>
                      denominator == Denominator(g1, g2, g3, gm1, gm2, gm3)
                      c2  == [c1 EXCEPT
                                !.e00[i] = Quotient(
                                    Numerator00(g1, g2, g3, gm1, gm2, gm3),
                                    denominator),
                                !.e11[i] = Quotient(
                                    Numerator11(g1, g2, g3, gm1, gm2, gm3),
                                    denominator),
                                !.deltaE[i] = Quotient(
                                    NumeratorDeltaE(g1, g2, g3, gm1, gm2, gm3),
                                    denominator)]
                  IN  IF denominator = CZero
                      THEN [ret |-> "None", exc |-> "none",
                            cal |-> [c1 EXCEPT !.isCalculated = FALSE]]
                      ELSE IF ~isValid2Port(cal)
                      THEN calculateCorrections_loop(c2, i + 1)
                      ELSE IF i > Len(cal.s21isolation)
                      THEN [ret |-> "raised", exc |-> "IndexError", cal |-> c2]
                      ELSE IF i > Len(cal.s21through)
                      THEN [ret |-> "raised", exc |-> "IndexError",
                            cal |-> [c2 EXCEPT !.e30[i] = Term30(c2, i)]]
                      ELSE calculateCorrections_loop(
                               [c2 EXCEPT !.e30[i] = Term30(c2, i),
                                          !.e10e32[i] = Term10e32(c2, i)],
                               i + 1)

calculateCorrections(cal) ==
    IF ~isValid1Port(cal)
    THEN [ret |-> "False", exc |-> "none", cal |-> cal]
    ELSE LET blank == [i \in 1 .. Len(cal.s11short) |-> Placeholder]
         IN  calculateCorrections_loop(
                 [cal EXCEPT !.frequencies = [i \in 1 .. Len(cal.s11short) |-> 0],
                             !.e00 = blank, !.e11 = blank, !.deltaE = blank,
                             !.e30 = blank, !.e10e32 = blank],
                 1)

\* correct11 and correct21 start their scan with distance = 10**10 (Hz);
\* frequencies of the lookups are in units of 10**9 Hz
distance0 == 10

\* the scan "for i in range(len(axis))" of correct11 and correct21 from
\* position i on: the index it ends with (counted from 1)
RECURSIVE nearest_scan(_, _, _, _, _)
nearest_scan(axis, freq, i, index, distance) ==
    IF i > Len(axis) THEN index
    ELSE IF Abs(axis[i][1] - freq) < distance
    THEN nearest_scan(axis, freq, i + 1, i, Abs(axis[i][1] - freq))
    ELSE nearest_scan(axis, freq, i + 1, index, distance)

\* correct11(re, im, freq): s11 = (s11m - e00) / (s11m * e11 - deltaE)
correct11(cal, re, im, freq) ==
    LET index == nearest_scan(cal.s11short, freq, 1, 1, distance0)
        s11m  == <<re, im>>
    IN  IF index > Len(cal.e00) \/ index > Len(cal.e11) \/ index > Len(cal.deltaE)
        THEN [exc |-> "IndexError", index |-> index, value |-> Placeholder]
        ELSE IF \E t \in {cal.e00[index], cal.e11[index], cal.deltaE[index]} :
                   t.kind # "term"
        THEN [exc |-> "TypeError", index |-> index, value |-> Placeholder]
        ELSE LET e00 == cal.e00[index]
                 e11 == cal.e11[index]
                 dE  == cal.deltaE[index]
                 den == CSub(CMul(CMul(s11m, e11.num), dE.den),
                             CMul(dE.num, e11.den))
             IN  IF den = CZero
                 THEN [exc |-> "ZeroDivisionError", index |-> index,
                       value |-> Placeholder]
                 ELSE [exc |-> "none", index |-> index,
                       value |-> Quotient(
                           CMul(CMul(CSub(CMul(s11m, e00.den), e00.num),
                                     e11.den), dE.den),
                           CMul(e00.den, den))]

\* correct21(re, im, freq): s21 = (s21m - e30) / e10e32
correct21(cal, re, im, freq) ==
    LET index == nearest_scan(cal.s21through, freq, 1, 1, distance0)
        s21m  == <<re, im>>
    IN  IF index > Len(cal.e30) \/ index > Len(cal.e10e32)
        THEN [exc |-> "IndexError", index |-> index, value |-> Placeholder]
        ELSE IF cal.e30[index].kind # "term" \/ cal.e10e32[index].kind # "term"
        THEN [exc |-> "TypeError", index |-> index, value |-> Placeholder]
        ELSE LET e30 == cal.e30[index]
                 t   == cal.e10e32[index]
             IN  IF t.num = CZero
                 THEN [exc |-> "ZeroDivisionError", index |-> index,
                       value |-> Placeholder]
                 ELSE [exc |-> "none", index |-> index,
                       value |-> Quotient(
                           CMul(CSub(CMul(s21m, e30.den), e30.num), t.den),
                           CMul(e30.den, t.num))]

(***************************************************************************)
(* class Options and class Touchstone.  A text is a sequence of stripped  *)
(* lines, a line the sequence of its words between white space, a word a  *)
(* record of its kind and value: kind "int" is what str() makes of an int  *)
(* and int() accepts, "float" what str() makes of a float and only float() *)
(* accepts, "#" and "!" a word that starts with that character, and any    *)
(* other kind is the lower-case text of the word itself.                   *)
(***************************************************************************)
Datapoint(freq, re, im) == <<freq, re, im>>

Word(k, n) == [kind |-> k, v |-> n]

UNIT_TO_FACTOR == [ghz |-> 10^9, mhz |-> 10^6, khz |-> 10^3, hz |-> 1]

\* Touchstone.__init__ with the defaults of Options.__init__
TouchstoneInit ==
    [sdata |-> <<<<>>, <<>>, <<>>, <<>>>>,
     opts |-> [factor |-> UNIT_TO_FACTOR["ghz"], parameter |-> "s",
               format |-> "ma", resistance |-> 50]]

\* Options.parse: the exception it raises and the options as it leaves them.
\* `p in "syzgh"` is a substring test; presist is never set.
Options_parse(opts, line) ==
    LET substrings == {"s", "y", "z", "g", "h", "sy", "yz", "zg", "gh",
                       "syz", "yzg", "zgh", "syzg", "yzgh", "syzgh"}
        RECURSIVE params(_, _, _, _, _)
        params(o, i, pfact, pparam, pformat) ==
            IF i > Len(line) THEN [exc |-> "none", opts |-> o]
            ELSE LET p == line[i].kind
                 IN  IF p \in DOMAIN UNIT_TO_FACTOR /\ ~pfact
                     THEN params([o EXCEPT !.factor = UNIT_TO_FACTOR[p]],
                                 i + 1, TRUE, pparam, pformat)
                     ELSE IF p \in substrings /\ ~pparam
                     THEN params([o EXCEPT !.parameter = p],
                                 i + 1, pfact, TRUE, pformat)
                     ELSE IF p \in {"ma", "db", "ri"} /\ ~pformat
                     THEN params([o EXCEPT !.format = p],
                                 i + 1, pfact, pparam, TRUE)
                     ELSE IF p = "r"
                     THEN IF i + 1 > Len(line)
                          THEN [exc |-> "StopIteration", opts |-> o]
                          ELSE IF line[i + 1].kind # "int"
                          THEN [exc |-> "ValueError", opts |-> o]
                          ELSE params([o EXCEPT !.resistance = line[i + 1].v],
                                      i + 2, pfact, pparam, pformat)
                     ELSE [exc |-> "TypeError", opts |-> o]
    IN  IF line = <<>> \/ line[1].kind # "#"
        THEN [exc |-> "TypeError", opts |-> opts]
        ELSE params(opts, 2, FALSE, FALSE, FALSE)

NotAscending_mut(freq, prev_freq) == freq < prev_freq

\* the consistency check of the frequency in Touchstone.loads
NotAscending(freq, prev_freq) == freq <= prev_freq

\* Touchstone.loads: the exception it raises and the object as it leaves it.
\* cmath.polar takes one argument, and there is no branch for "db".
loads(t, file) ==
    LET RECURSIVE parse_comments(_)
        parse_comments(i) ==
            IF i > Len(file) THEN 0
            ELSE IF file[i] # <<>> /\ file[i][1].kind = "!"
            THEN parse_comments(i + 1)
            ELSE i
        n == parse_comments(1)
        o == IF n = 0 THEN [exc |-> "AttributeError", opts |-> t.opts]
             ELSE Options_parse(t.opts, file[n])
        float(x) == x.kind \in {"int", "float"}
        RECURSIVE vals(_, _, _, _)
        vals(sd, data, k, freq) ==
            IF 2 * k > Len(data) \/ o.opts.format = "db"
            THEN [exc |-> "none", sdata |-> sd]
            ELSE IF k > 4 /\ o.opts.format = "ri"
            THEN [exc |-> "StopIteration", sdata |-> sd]
            ELSE IF ~float(data[2 * k - 1]) \/ ~float(data[2 * k])
            THEN [exc |-> "ValueError", sdata |-> sd]
            ELSE IF o.opts.format = "ma"
            THEN [exc |-> "TypeError", sdata |-> sd]
            ELSE vals([sd EXCEPT ![k] = Append(@, Datapoint(freq,
                                     data[2 * k - 1].v, data[2 * k].v))],
                      data, k + 1, freq)
        RECURSIVE lines(_, _, _, _)
        lines(sd, i, prev_freq, prev_len) ==
            IF i > Len(file) THEN [exc |-> "none", sdata |-> sd]
            ELSE IF file[i] = <<>> THEN lines(sd, i + 1, prev_freq, prev_len)
            ELSE IF file[i][1].kind = "!"
            THEN [exc |-> "IndexError", sdata |-> sd]
            ELSE IF ~float(file[i][1])
            THEN [exc |-> "ValueError", sdata |-> sd]
            ELSE LET freq == file[i][1].v * o.opts.factor
                     data == Tail(file[i])
                     data_len == Len(data)
                     len == IF prev_len = 0 THEN data_len ELSE prev_len
                 IN  IF NotAscending(freq, prev_freq)
                     THEN [exc |-> "TypeError", sdata |-> sd]
                     ELSE IF data_len % 2 = 1 \/ data_len # len
                     THEN [exc |-> "TypeError", sdata |-> sd]
                     ELSE LET r == vals(sd, data, 1, freq)
                          IN  IF r.exc # "none" THEN r
                              ELSE lines(r.sdata, i + 1, freq, len)
        d == IF o.exc # "none" THEN [exc |-> o.exc, sdata |-> t.sdata]
             ELSE lines(t.sdata, n + 1, 0, 0)
    IN  [exc |-> d.exc, t |-> [sdata |-> d.sdata, opts |-> o.opts]]

(***************************************************************************)
(* class SweepWorker                                                       *)
(***************************************************************************)
DefaultSweep == Sweep(3600000, 30000000, 101, 1).obj

\* SweepWorker.__init__.  percentage <<n, d>> is the number 100 * n / d.
WorkerInit ==
    [sweep |-> DefaultSweep,
     data11 |-> <<>>, data21 |-> <<>>, rawData11 |-> <<>>, rawData21 |-> <<>>,
     stopped |-> FALSE, running |-> FALSE, continuousSweep |-> FALSE,
     averaging |-> FALSE, averages |-> 3, truncates |-> 0,
     error_message |-> "", percentage |-> <<0, 1>>]

\* the host's fields: the three sweep inputs (start and end as
\* parse_frequency reads them, -1 when unparsable; the count as int() reads
\* it), the calibration, the published data and its lock.  data.ref
\* tells whether app.data / app.data21 are the very list objects the worker
\* holds in data11 / data21, or lists the worker no longer holds.  marker is
\* the frequency of the markers (0: none set), hostExc the exception that
\* left dataUpdated.
AppInit ==
    [sweepStartInput |-> 1, sweepEndInput |-> 5,
     sweepCountInput |-> [ok |-> TRUE, val |-> 1],
     calibration |-> CalibrationInit,
     data |-> [ref |-> "own", s11 |-> <<>>, s21 |-> <<>>],
     dataLock |-> "free", updatedQueued |-> FALSE,
     marker |-> 0, hostExc |-> "none"]

\* one argument of a command line: a formatted number, or text as written
Number(n) == [kind |-> "number", num |-> n, text |-> ""]
Text(t) == [kind |-> "text", num |-> 0, text |-> t]

\* NanoVNA.resetSweep(start, stop): the two command lines it writes.  The
\* first is a plain string, not an f-string: its braces are sent as written.
NoReset == [cmd |-> "none", args |-> <<>>, resume |-> FALSE]
resetSweep(start, stop, datapoints) ==
    [cmd |-> "sweep",
     args |-> <<Text("{start}"), Text("{stop}"), Text("{self.datapoints}")>>,
     resume |-> TRUE]

\* the instrument: start and stop are its sweep window, reset is what the
\* current run's resetSweep wrote
VnaInit ==
    [connected |-> TRUE, validateInput |-> TRUE, datapoints |-> 1,
     start |-> 1, stop |-> 1, kinds |-> {"good"}, reset |-> NoReset]

\* the last pass of readData's loop: channel, kind of response read, how the
\* pass ended, and whether it was the call's tenth vna.readValues
NoRead == [ch |-> 0, outcome |-> "none", kind |-> "none", tenth |-> FALSE]

\* the locals of run() and of the calls below it; index is that of correct11
\* and correct21, value what they return, other a second Calibration object,
\* t the Touchstone object of a load
LocInit ==
    [values11 |-> <<>>, values21 |-> <<>>, frequencies |-> <<>>,
     first_sweep |-> FALSE, finished |-> FALSE, i |-> 0,
     k |-> 0, acc11 |-> <<>>, acc21 |-> <<>>,
     freq |-> <<>>, val11 |-> <<>>, val21 |-> <<>>,
     tmpfreq |-> <<>>, tmp11 |-> <<>>, tmp21 |-> <<>>,
     count |-> 0, rd |-> NoRead, exc |-> "none", nan |-> FALSE,
     mismatch |-> FALSE, index |-> 0, value |-> Placeholder,
     other |-> CalibrationInit, t |-> TouchstoneInit]

\* of the current run: updated signals emitted since the segment began,
\* finished and sweepError signals emitted, the exception that left run(),
\* whether an instrument command was issued, whether the host asked to stop
\* after run() had entered its loop
SigInit == [updated |-> 0, finished |-> 0, sweepError |-> 0,
            exc |-> "none", touched |-> FALSE, stopRequested |-> FALSE]

EnvInit == [runs |-> 0, passes |-> 0, epoch |-> 1, file |-> <<>>]

\* serialLock when nobody holds it, and when the caller that held it is gone
Free == -1
Orphaned == -2
\* the GUI thread as a caller; the pool's threads are 1 .. MaxThreads
Gui == 0
Threads == 1 .. MaxThreads
Callers == {Gui} \cup Threads

\* NanoVNASaver.__init__ and CalibrationWindow: an unopened serial.Serial(),
\* a free serialLock, the GUI thread in the event loop, no assistant
HostInit ==
    [is_open |-> FALSE, serialLock |-> Free, inflight |-> Free,
     btnSweep |-> TRUE, pc |-> "idle", io |-> "none",
     btn_automatic |-> TRUE, nextStep |-> -1, connected |-> FALSE,
     maxThreadCount |-> 1, queued |-> 0, finishedQueue |-> 0]

ThrInit == [t \in Threads |-> [pc |-> "free", io |-> "none"]]

\* the host's variables in a specification without the host window
HostUnused ==
    /\ host = HostInit
    /\ thr = ThrInit

\* the worker's variables in a specification that does not run it
WorkerUnused ==
    /\ w = WorkerInit
    /\ app = AppInit
    /\ vna = VnaInit
    /\ loc = LocInit
    /\ pc = "idle"
    /\ sig = SigInit
    /\ env = EnvInit

\* readData, the body of one pass of its while loop after the read: scan the
\* lines of tmpdata from idx on.  A line that does not split in two raises
\* ValueError out of readData; float() failing is caught and clears done; an
\* implausible value under validation clears done and breaks.
RECURSIVE readData_scan(_, _, _, _, _)
readData_scan(tmpdata, idx, validate, done, returndata) ==
    IF idx > Len(tmpdata)
    THEN [exc |-> "none", done |-> done, returndata |-> returndata]
    ELSE LET d == tmpdata[idx]
         IN  IF d.f # 2
             THEN [exc |-> "ValueError", done |-> done, returndata |-> returndata]
             ELSE IF ~d.num
             THEN readData_scan(tmpdata, idx + 1, validate, FALSE, returndata)
             ELSE IF validate /\ (Abs(d.a) > ValidLimit \/ Abs(d.b) > ValidLimit)
             THEN [exc |-> "none", done |-> FALSE, returndata |-> returndata]
             ELSE readData_scan(tmpdata, idx + 1, validate, done,
                                Append(returndata, <<d.a, d.b>>))

\* readData gives up (raises IOError) once count failed reads were made
readData_giveup_mut(count) == count >= MaxTries - 1

readData_giveup(count) == count >= MaxTries

\* readData: one pass of its while loop, on channel 0 ("data 0", pc =
\* "data0") or channel 1 ("data 1", pc = "data1") inside readSegment.
readData_attempt ==
    /\ pc \in {"data0", "data1"}
    /\ \E kind \in vna.kinds :
        LET ch    == IF pc = "data0" THEN 0 ELSE 1
            r     == readData_scan(Response(kind, ch, vna, env.epoch), 1,
                                   vna.validateInput, TRUE, <<>>)
            count == loc.count + 1
            rd(o) == [ch |-> ch, outcome |-> o, kind |-> kind,
                      tenth |-> (count = MaxTries)]
        IN  CASE r.exc = "ValueError" ->
                   /\ loc' = [loc EXCEPT !.count = 0, !.rd = rd("ValueError"),
                                         !.exc = "ValueError",
                                         !.tmpfreq = <<>>, !.tmp11 = <<>>]
                   /\ pc' = "except"
                   /\ sig' = sig
              [] r.exc = "none" /\ r.done ->
                   /\ loc' = IF ch = 0
                             THEN [loc EXCEPT !.count = 0, !.rd = rd("returned"),
                                              !.tmp11 = r.returndata]
                             ELSE [loc EXCEPT !.count = 0, !.rd = rd("returned"),
                                              !.tmp21 = r.returndata]
                   /\ pc' = IF ch = 0 THEN "data1" ELSE "segment_end"
                   /\ sig' = sig
              [] r.exc = "none" /\ ~r.done /\ readData_giveup(count) ->
                   /\ loc' = [loc EXCEPT !.count = count, !.rd = rd("IOError")]
                   /\ pc' = "escaped"
                   /\ sig' = [sig EXCEPT !.exc = "IOError"]
              [] OTHER ->
                   /\ loc' = [loc EXCEPT !.count = count, !.rd = rd("reading")]
                   /\ pc' = pc
                   /\ sig' = sig
    /\ UNCHANGED <<w, app, vna, env, planVars, hostVars>>

(***************************************************************************)
(* numpy and list helpers of SweepWorker.py                                *)
(***************************************************************************)
\* all rows of a list of lists have one length (numpy can make an array)
Regular(values) ==
    \A a, b \in 1 .. Len(values) : Len(values[a]) = Len(values[b])

RECURSIVE SumRe(_, _)
SumRe(vs, n) == IF n = 0 THEN 0 ELSE vs[n][1] + SumRe(vs, n - 1)

RECURSIVE SumIm(_, _)
SumIm(vs, n) == IF n = 0 THEN 0 ELSE vs[n][2] + SumIm(vs, n - 1)

\* |avg - v| of truncate's sort key, as k*k times its square (k = len(vs))
Dist2(vs, v) ==
    LET k  == Len(vs)
        dr == SumRe(vs, k) - k * v[1]
        di == SumIm(vs, k) - k * v[2]
    IN  dr * dr + di * di

\* sorted(valueset, key=...): Python's sort is stable
RECURSIVE SortedByDist(_, _)
SortedByDist(vs, n) ==
    IF n = 0 THEN <<>>
    ELSE LET s == SortedByDist(vs, n - 1)
             x == vs[n]
             p == Cardinality({q \in 1 .. Len(s) : Dist2(vs, s[q]) <= Dist2(vs, x)})
         IN  SubSeq(s, 1, p) \o <<x>> \o SubSeq(s, p + 1, Len(s))

\* truncate(values, count): values is a list of repeats, each a list of
\* (re, im) per bin.  np.swapaxes raises (a ValueError) on rows of different
\* lengths and, after the loop, on the empty list left by empty rows.
truncate_mut(values, count) == [exc |-> "none", values |-> values]
truncate(values, count) ==
    LET k    == Len(values)
        keep == k - count
    IN  IF count < 1 \/ keep < 1 THEN [exc |-> "none", values |-> values]
        ELSE IF ~Regular(values) \/ Len(values[1]) = 0
        THEN [exc |-> "ValueError", values |-> <<>>]
        ELSE LET m      == Len(values[1])
                 bin(j) == SortedByDist([r \in 1 .. k |-> values[r][j]], k)
             IN  [exc |-> "none",
                  values |-> [r \in 1 .. keep |-> [j \in 1 .. m |-> bin(j)[r]]]]

\* np.average(values, 0).tolist(): the outcomes the build can produce.  No
\* repeats: the float nan.  Rows of different lengths: ValueError with a
\* numpy that refuses ragged arrays, TypeError with one that makes an object
\* array of them.
np_average(values) ==
    LET k == Len(values)
    IN  IF k = 0 THEN {[exc |-> "none", nan |-> TRUE, data |-> <<>>]}
        ELSE IF ~Regular(values)
        THEN {[exc |-> e, nan |-> FALSE, data |-> <<>>] : e \in {"ValueError", "TypeError"}}
        ELSE {[exc |-> "none", nan |-> FALSE,
               data |-> [j \in 1 .. Len(values[1]) |->
                   LET vs == [r \in 1 .. k |-> values[r][j]]
                   IN  <<SumRe(vs, k) \div k, SumIm(vs, k) \div k>>]]}

\* applyCalibration(raw_data11, raw_data21) with offsetDelay = 0.  Its calls
\* correct11(dp) and correct21(dp) pass one argument to methods that take
\* (re, im, freq): each such call raises TypeError.
applyCalibration_mut(cal, raw_data11, raw_data21) ==
    IF raw_data11 # <<>>
    THEN [exc |-> "TypeError", data11 |-> <<>>, data21 |-> <<>>]
    ELSE [exc |-> "none", data11 |-> raw_data11, data21 |-> raw_data21]
applyCalibration(cal, raw_data11, raw_data21) ==
    IF ~cal.isCalculated
    THEN [exc |-> "none", data11 |-> raw_data11, data21 |-> raw_data21]
    ELSE IF isValid1Port(cal) /\ raw_data11 # <<>>
    THEN [exc |-> "TypeError", data11 |-> <<>>, data21 |-> <<>>]
    ELSE IF isValid2Port(cal) /\ raw_data21 # <<>>
    THEN [exc |-> "TypeError", data11 |-> <<>>, data21 |-> <<>>]
    ELSE [exc |-> "none", data11 |-> raw_data11, data21 |-> raw_data21]

\* updateData's loop over values11 from its idx-th element on: the buffers
\* after it, and the IndexError that stops it when an index is out of range
RECURSIVE updateData_loop(_, _, _, _, _, _)
updateData_loop(buf, values11, values21, offset, segment_size, idx) ==
    IF idx > Len(values11) THEN [exc |-> "none", buf |-> buf]
    ELSE LET pos == offset * segment_size + idx
         IN  IF \/ idx > Len(values21)
                \/ pos > Len(buf.data11)
             THEN [exc |-> "IndexError", buf |-> buf]
             ELSE LET freq  == buf.data11[pos][1]
                      raw11 == Datapoint(freq, values11[idx][1], values11[idx][2])
                      raw21 == Datapoint(freq, values21[idx][1], values21[idx][2])
                      r     == applyCalibration(app.calibration,
                                                <<raw11>>, <<raw21>>)
                      d11   == r.data11[1]
                      d21   == r.data21[1]
                  IN  IF r.exc # "none"
                      THEN [exc |-> r.exc, buf |-> buf]
                      ELSE IF \/ pos > Len(buf.data21)
                              \/ pos > Len(buf.rawData11)
                              \/ pos > Len(buf.rawData21)
                      THEN [exc |-> "IndexError",
                            buf |-> [buf EXCEPT !.data11[pos] = d11]]
                      ELSE updateData_loop(
                               [buf EXCEPT !.data11[pos] = d11,
                                           !.data21[pos] = d21,
                                           !.rawData11[pos] = raw11,
                                           !.rawData21[pos] = raw21],
                               values11, values21, offset, segment_size, idx + 1)

(***************************************************************************)
(* The host starts the worker; SweepWorker.run() step by step.             *)
(***************************************************************************)
Running == pc \notin {"idle", "done", "escaped"}

\* what the operator can leave in the sweep count field: unparsable text,
\* or a number
CountInputs ==
    {[ok |-> FALSE, val |-> 0]} \cup {[ok |-> TRUE, val |-> n] : n \in 0 .. MaxSegments}

\* NanoVNASaver.sweep(): threadpool.start(self.worker), after the operator
\* has set the sweep inputs, continuous sweep and averaging.  The
\* instrument session is connected or not when run() looks.
app_sweep ==
    /\ pc \in {"idle", "done"}
    /\ env.runs < MaxRuns
    /\ \E s \in {-1, 1}, e \in {-1, 5}, c \in CountInputs,
          n \in 1 .. MaxDatapoints, conn \in BOOLEAN,
          cont \in BOOLEAN, avg \in BOOLEAN, trunc \in {0, MaxAverages - 1} :
          /\ (~avg => trunc = 0)
          /\ app' = [app EXCEPT !.sweepStartInput = s, !.sweepEndInput = e,
                                !.sweepCountInput = c]
          /\ vna' = [vna EXCEPT !.datapoints = n, !.connected = conn,
                                !.reset = NoReset]
          /\ w' = [w EXCEPT !.continuousSweep = cont,
                            !.averaging = avg,
                            !.averages = IF avg THEN MaxAverages ELSE @,
                            !.truncates = IF avg THEN trunc ELSE @]
    /\ pc' = "run"
    /\ loc' = LocInit
    /\ sig' = SigInit
    /\ env' = [env EXCEPT !.runs = @ + 1, !.passes = 0]
    /\ UNCHANGED <<planVars, hostVars>>

\* run(), up to the segment loop
run_begin ==
    /\ pc = "run"
    /\ IF ~vna.connected
       THEN /\ w' = [w EXCEPT !.running = FALSE, !.percentage = <<0, 1>>]
            /\ pc' = "done"
            /\ UNCHANGED <<loc, sig, env>>
       ELSE LET c == app.sweepCountInput
                r == IF ~c.ok THEN [exc |-> "ValueError", obj |-> NoObject]
                     ELSE Sweep(app.sweepStartInput, app.sweepEndInput,
                                vna.datapoints, c.val)
            IN  CASE r.exc = "ValueError" ->
                       /\ w' = [w EXCEPT
                               !.error_message = "Unable to parse frequency inputs",
                               !.stopped = TRUE, !.running = FALSE,
                               !.percentage = <<0, 1>>]
                       /\ sig' = [sig EXCEPT !.sweepError = @ + 1]
                       /\ pc' = "done"
                       /\ UNCHANGED <<loc, env>>
                  [] r.exc = "none" ->
                       /\ w' = [w EXCEPT !.running = TRUE, !.sweep = r.obj,
                                         !.percentage = <<0, 1>>]
                       /\ loc' = [LocInit EXCEPT
                                     !.first_sweep = ~SweepEq(r.obj, w.sweep)]
                       /\ env' = [env EXCEPT !.passes = 1, !.epoch = @ + 1]
                       /\ pc' = "segment"
                       /\ sig' = sig
                  [] OTHER ->
                       /\ w' = [w EXCEPT !.running = TRUE,
                                         !.percentage = <<0, 1>>]
                       /\ sig' = [sig EXCEPT !.exc = r.exc]
                       /\ pc' = "escaped"
                       /\ UNCHANGED <<loc, env>>
    /\ UNCHANGED <<app, vna, planVars, hostVars>>

\* the head of "for i in range(self.sweep.sweeps)"
run_segment ==
    /\ pc = "segment"
    /\ IF loc.i >= w.sweep.sweeps
       THEN /\ pc' = "pass_end"
            /\ loc' = loc
       ELSE IF w.stopped
       THEN /\ pc' = "pass_end"
            /\ loc' = [loc EXCEPT !.finished = TRUE]
       ELSE /\ pc' = IF w.averaging THEN "average" ELSE "readSegment"
            /\ loc' = [loc EXCEPT !.k = 0, !.acc11 = <<>>, !.acc21 = <<>>,
                                  !.freq = <<>>, !.val11 = <<>>, !.val21 = <<>>,
                                  !.nan = FALSE, !.mismatch = FALSE]
    /\ sig' = [sig EXCEPT !.updated = 0]
    /\ UNCHANGED <<w, app, vna, env, planVars, hostVars>>

\* readAveragedSegment: the head of "for i in range(averages)"
readAveragedSegment_next ==
    /\ pc = "average"
    /\ pc' = IF loc.k >= w.averages \/ w.stopped THEN "average_post"
             ELSE "readSegment"
    /\ UNCHANGED <<w, app, vna, loc, sig, env, planVars, hostVars>>

\* readSegment: setSweep and readFrequencies
readSegment_begin ==
    /\ pc = "readSegment"
    /\ LET range == get_index_range(w.sweep, loc.i)
           dev   == [vna EXCEPT !.start = range[1], !.stop = range[2]]
       IN  /\ vna' = dev
           /\ \E kind \in vna.kinds \cap {"good", "short"} :
                 loc' = [loc EXCEPT !.tmpfreq = FreqResponse(kind, dev),
                                    !.tmp11 = <<>>, !.tmp21 = <<>>,
                                    !.count = 0]
    /\ sig' = [sig EXCEPT !.touched = TRUE]
    /\ pc' = "data0"
    /\ UNCHANGED <<w, app, env, planVars, hostVars>>

\* readSegment: the length check and the return, into run() or into the
\* averaging loop, which appends the repeat, adds 100 / (sweeps * averages)
\* to percentage and emits updated
readSegment_end ==
    /\ pc = "segment_end"
    /\ LET ok == /\ Len(loc.tmpfreq) = Len(loc.tmp11)
                 /\ Len(loc.tmpfreq) = Len(loc.tmp21)
           f   == IF ok THEN loc.tmpfreq ELSE <<>>
           v11 == IF ok THEN loc.tmp11 ELSE <<>>
           v21 == IF ok THEN loc.tmp21 ELSE <<>>
           l   == [loc EXCEPT !.tmpfreq = <<>>, !.tmp11 = <<>>, !.tmp21 = <<>>,
                              !.rd = NoRead, !.mismatch = @ \/ ~ok]
       IN  IF w.averaging
           THEN /\ loc' = [l EXCEPT !.freq = f,
                                    !.acc11 = Append(@, v11),
                                    !.acc21 = Append(@, v21),
                                    !.k = @ + 1]
                /\ sig' = [sig EXCEPT !.updated = @ + 1]
                /\ app' = [app EXCEPT !.updatedQueued = TRUE]
                /\ w' = LET d == w.sweep.sweeps * w.averages
                            p == w.percentage
                        IN  [w EXCEPT !.percentage =
                                IF p[2] = d THEN <<p[1] + 1, d>>
                                ELSE <<p[1] * d + p[2], p[2] * d>>]
                /\ pc' = "average"
           ELSE /\ loc' = [l EXCEPT !.freq = f, !.val11 = v11, !.val21 = v21]
                /\ sig' = sig
                /\ app' = app
                /\ w' = w
                /\ pc' = "publish"
    /\ UNCHANGED <<vna, env, planVars, hostVars>>

\* readAveragedSegment after its loop: truncate and average both channels
AveragePost(l) ==
    /\ pc = "average_post"
    /\ LET t11 == truncate(loc.acc11, w.truncates)
           t21 == truncate(loc.acc21, w.truncates)
       IN  IF t11.exc # "none" \/ t21.exc # "none"
           THEN /\ loc' = [l EXCEPT !.exc = "ValueError", !.freq = <<>>]
                /\ pc' = "except"
                /\ sig' = sig
           ELSE \E a11 \in np_average(t11.values), a21 \in np_average(t21.values) :
                   LET e == IF a11.exc # "none" THEN a11.exc ELSE a21.exc
                   IN  CASE e = "none" ->
                              /\ loc' = [l EXCEPT !.val11 = a11.data,
                                                  !.val21 = a21.data,
                                                  !.nan = a11.nan]
                              /\ pc' = "publish"
                              /\ sig' = sig
                         [] e = "ValueError" ->
                              /\ loc' = [l EXCEPT !.exc = "ValueError", !.freq = <<>>]
                              /\ pc' = "except"
                              /\ sig' = sig
                         [] OTHER ->
                              /\ loc' = [l EXCEPT !.freq = <<>>]
                              /\ pc' = "escaped"
                              /\ sig' = [sig EXCEPT !.exc = e]
    /\ UNCHANGED <<w, app, vna, env, planVars, hostVars>>

readAveragedSegment_post ==
    AveragePost([loc EXCEPT !.acc11 = <<>>, !.acc21 = <<>>, !.k = 0])

\* run(): the segment was read and percentage is (i + 1) * 100 / sweeps; on
\* a first sweep extend the accumulated lists (extend(nan) is a TypeError),
\* otherwise go and update in place
run_publish ==
    /\ pc = "publish"
    /\ w' = LET d == w.sweep.sweeps * w.averages
            IN  [w EXCEPT !.percentage = <<(loc.i + 1) * w.averages, d>>]
    /\ IF ~loc.first_sweep
       THEN /\ pc' = "updateData"
            /\ UNCHANGED <<loc, sig>>
       ELSE IF loc.nan
       THEN /\ pc' = "escaped"
            /\ sig' = [sig EXCEPT !.exc = "TypeError"]
            /\ loc' = loc
       ELSE /\ loc' = [loc EXCEPT !.frequencies = @ \o loc.freq,
                                  !.values11 = @ \o loc.val11,
                                  !.values21 = @ \o loc.val21]
            /\ pc' = "saveData"
            /\ sig' = sig
    /\ UNCHANGED <<app, vna, env, planVars, hostVars>>

\* the lists app.data / app.data21 refer to
AppData ==
    IF app.data.ref = "worker" THEN <<w.data11, w.data21>>
    ELSE <<app.data.s11, app.data.s21>>

\* updateData(values11, values21, i, self.sweep.points), up to app.saveData:
\* stores into the lists data11, data21, rawData11 and rawData21 in place
updateData ==
    /\ pc = "updateData"
    /\ LET buf == [data11 |-> w.data11, data21 |-> w.data21,
                   rawData11 |-> w.rawData11, rawData21 |-> w.rawData21]
           r   == updateData_loop(buf, loc.values11, loc.values21,
                                  loc.i, w.sweep.points, 1)
       IN  /\ w' = [w EXCEPT !.data11 = r.buf.data11, !.data21 = r.buf.data21,
                             !.rawData11 = r.buf.rawData11,
                             !.rawData21 = r.buf.rawData21]
           /\ IF r.exc = "none"
              THEN pc' = "app_saveData" /\ sig' = sig
              ELSE pc' = "escaped" /\ sig' = [sig EXCEPT !.exc = r.exc]
    /\ UNCHANGED <<app, vna, loc, env, planVars, hostVars>>

\* saveData(frequencies, values11, values21), up to app.saveData: builds new
\* lists and binds rawData11, rawData21, data11 and data21 to them
saveData ==
    /\ pc = "saveData"
    /\ LET n   == Len(loc.frequencies)
           old == AppData
       IN  IF Len(loc.values11) < n \/ Len(loc.values21) < n
           THEN /\ pc' = "escaped"
                /\ sig' = [sig EXCEPT !.exc = "IndexError"]
                /\ UNCHANGED <<w, app>>
           ELSE LET raw11 == [j \in 1 .. n |->
                                Datapoint(loc.frequencies[j], loc.values11[j][1],
                                          loc.values11[j][2])]
                    raw21 == [j \in 1 .. n |->
                                Datapoint(loc.frequencies[j], loc.values21[j][1],
                                          loc.values21[j][2])]
                    r     == applyCalibration(app.calibration, raw11, raw21)
                IN  IF r.exc # "none"
                    THEN /\ w' = [w EXCEPT !.rawData11 = raw11,
                                           !.rawData21 = raw21]
                         /\ pc' = "escaped"
                         /\ sig' = [sig EXCEPT !.exc = r.exc]
                         /\ app' = app
                    ELSE /\ w' = [w EXCEPT !.rawData11 = raw11,
                                           !.rawData21 = raw21,
                                           !.data11 = r.data11,
                                           !.data21 = r.data21]
                         /\ app' = [app EXCEPT !.data =
                                       [ref |-> "own", s11 |-> old[1],
                                        s21 |-> old[2]]]
                         /\ pc' = "app_saveData"
                         /\ sig' = sig
    /\ UNCHANGED <<vna, loc, env, planVars, hostVars>>

\* NanoVNASaver.saveData: dataLock.acquire(blocking=True)
app_saveData_acquire ==
    /\ pc = "app_saveData"
    /\ app.dataLock = "free"
    /\ app' = [app EXCEPT !.dataLock = "worker"]
    /\ pc' = "app_saveData_locked"
    /\ UNCHANGED <<w, vna, loc, sig, env, planVars, hostVars>>

\* NanoVNASaver.saveData: self.data = data; self.data21 = data12; release.
\* Back in the worker: emit updated, and the for loop takes the next i.
app_saveData_set ==
    /\ pc = "app_saveData_locked"
    /\ app' = [app EXCEPT !.data = [ref |-> "worker", s11 |-> <<>>, s21 |-> <<>>],
                          !.dataLock = "free", !.updatedQueued = TRUE]
    /\ sig' = [sig EXCEPT !.updated = @ + 1]
    /\ loc' = [loc EXCEPT !.i = @ + 1, !.freq = <<>>, !.val11 = <<>>,
                          !.val21 = <<>>, !.nan = FALSE,
                          !.mismatch = FALSE]
    /\ pc' = "segment"
    /\ UNCHANGED <<w, vna, env, planVars, hostVars>>

\* run(): except ValueError as e, inside the for loop, which goes on
run_except ==
    /\ pc = "except"
    /\ w' = [w EXCEPT !.error_message = "ValueError", !.stopped = TRUE,
                      !.running = FALSE]
    /\ sig' = [sig EXCEPT !.sweepError = @ + 1]
    /\ loc' = [loc EXCEPT !.i = @ + 1, !.exc = "none", !.freq = <<>>,
                          !.val11 = <<>>, !.val21 = <<>>, !.nan = FALSE,
                          !.mismatch = FALSE,
                          !.rd = NoRead,
                          !.k = 0, !.acc11 = <<>>, !.acc21 = <<>>,
                          !.tmpfreq = <<>>, !.tmp11 = <<>>, !.tmp21 = <<>>]
    /\ pc' = "segment"
    /\ UNCHANGED <<app, vna, env, planVars, hostVars>>

\* run(): after the for loop, the end of one pass of "while not finished"
run_pass_end_mut ==
    /\ pc = "pass_end"
    /\ loc' = [loc EXCEPT !.finished = TRUE, !.first_sweep = FALSE]
    /\ pc' = "finish"
    /\ UNCHANGED <<w, app, vna, sig, env, planVars, hostVars>>
run_pass_end ==
    /\ pc = "pass_end"
    /\ LET fin == loc.finished \/ ~w.continuousSweep
       IN  IF fin
           THEN /\ loc' = [loc EXCEPT !.finished = TRUE, !.first_sweep = FALSE]
                /\ pc' = "finish"
                /\ env' = env
           ELSE /\ env.passes < MaxPasses
                /\ loc' = [loc EXCEPT !.first_sweep = FALSE, !.i = 0]
                /\ pc' = "segment"
                /\ env' = [env EXCEPT !.passes = @ + 1, !.epoch = @ + 1]
    /\ UNCHANGED <<w, app, vna, sig, planVars, hostVars>>

\* run(): after the loop: reset the instrument's sweep when segmented, emit
\* finished
run_finish ==
    /\ pc = "finish"
    /\ IF w.sweep.sweeps > 1
       THEN /\ vna' = [vna EXCEPT !.reset =
                               resetSweep(app.sweepStartInput,
                                          app.sweepEndInput, vna.datapoints)]
            /\ sig' = [sig EXCEPT !.touched = TRUE, !.finished = @ + 1]
       ELSE /\ vna' = vna
            /\ sig' = [sig EXCEPT !.finished = @ + 1]
    /\ w' = [w EXCEPT !.running = FALSE, !.percentage = <<1, 1>>]
    /\ loc' = LocInit
    /\ pc' = "done"
    /\ UNCHANGED <<app, env, planVars, hostVars>>

\* the host asks the running worker to stop: worker.stopped = True
app_stop ==
    /\ Running
    /\ ~w.stopped
    /\ w' = [w EXCEPT !.stopped = TRUE]
    /\ sig' = [sig EXCEPT !.stopRequested = (pc # "run")]
    /\ UNCHANGED <<app, vna, loc, pc, env, planVars, hostVars>>

(***************************************************************************)
(* Spec: a host that starts the worker up to MaxRuns times, one run at a   *)
(* time, and may ask it to stop.                                           *)
(***************************************************************************)
Init ==
    /\ p_args = [start |-> 1, end |-> 5, points |-> 1, sweeps |-> 1]
    /\ p_sweep = NoObject /\ p_exc = "unbuilt" /\ p_ranges = <<>>
    /\ w = WorkerInit
    /\ app = AppInit
    /\ vna = [VnaInit EXCEPT !.kinds = {"good", "outB", "short", "split"}]
    /\ loc = LocInit
    /\ pc = "idle"
    /\ sig = SigInit
    /\ env = EnvInit
    /\ HostUnused

Next ==
    \/ app_sweep
    \/ app_stop
    \/ run_begin
    \/ run_segment
    \/ readAveragedSegment_next
    \/ readSegment_begin
    \/ readData_attempt
    \/ readSegment_end
    \/ readAveragedSegment_post
    \/ run_publish
    \/ updateData
    \/ saveData
    \/ app_saveData_acquire
    \/ app_saveData_set
    \/ run_except
    \/ run_pass_end
    \/ run_finish

Spec == Init /\ [][Next]_vars

\* NanoVNASaver.dataUpdated between dataLock.acquire and the release that is
\* its last statement: the exception that leaves it, or "none".  Samples are
\* in units of 1/60.  vswr is NanoVNASaver.vswr: it divides by
\* 1 + re*re + im*im - 2*re and by 1 - mag; mag is 0 for the sample (0, 0),
\* for which math.log10((vswr-1)/(vswr+1)) and math.log10(mag) raise
\* ValueError.  findLocation is Marker.findLocation, which reads data[1];
\* the markers are set to one frequency.
dataUpdated(data, data21, frequency) ==
    LET U == 60
        den(d) == U * U + d[2] * d[2] + d[3] * d[3] - 2 * U * d[2]
        mag2(d) == d[2] * d[2] + d[3] * d[3]
        vswr(d) == IF den(d) = 0 \/ mag2(d) = U * U
                   THEN "ZeroDivisionError" ELSE "none"
        log10(zero) == IF zero THEN "ValueError" ELSE "none"
        returnloss(d) == IF vswr(d) # "none" THEN vswr(d)
                         ELSE log10(mag2(d) = 0)
        reactanceEquivalent(d) == IF d[1] = 0 \/ d[3] = 0
                                  THEN "ZeroDivisionError" ELSE "none"
        formatFrequency(freq) == log10(freq <= 0)
        self_gain(d) == IF den(d) = 0 THEN "ZeroDivisionError"
                        ELSE log10(mag2(d) = 0)
        abs(x) == IF x < 0 THEN -x ELSE x
        first(seq, f(_)) ==
            LET bad == {i \in DOMAIN seq : f(seq[i]) # "none"}
            IN  IF bad = {} THEN "none"
                ELSE f(seq[CHOOSE i \in bad : \A k \in bad : i <= k])
        findLocation ==
            IF frequency = 0 \/ Len(data) = 0
            THEN [exc |-> "none", location |-> -1]
            ELSE IF Len(data) < 2
            THEN [exc |-> "IndexError", location |-> -1]
            ELSE LET step_size == data[2][1] - data[1][1]
                     at == {i \in DOMAIN data :
                               2 * abs(data[i][1] - frequency) <= step_size}
                 IN  [exc |-> "none",
                      location |-> IF at = {} THEN -1
                                   ELSE (CHOOSE i \in at :
                                            \A k \in at : i <= k) - 1]
        marker(location) ==
            LET d == data[location + 1]
            IN  IF returnloss(d) # "none" THEN returnloss(d)
                ELSE IF reactanceEquivalent(d) # "none"
                THEN reactanceEquivalent(d)
                ELSE IF Len(data21) = Len(data)
                THEN returnloss(data21[location + 1])
                ELSE "none"
        shown == {i \in DOMAIN data :
                     /\ mag2(data[i]) < U * U
                     /\ 10201 * mag2(data[i]) < 9801 * U * U}
        least == CHOOSE i \in shown :
                     \A k \in shown :
                         \/ mag2(data[i]) < mag2(data[k])
                         \/ mag2(data[i]) = mag2(data[k]) /\ i <= k
        minVSWR ==
            IF first(data, vswr) # "none" THEN first(data, vswr)
            ELSE IF shown = {} THEN "none"
            ELSE IF formatFrequency(data[least][1]) # "none"
            THEN formatFrequency(data[least][1])
            ELSE log10(mag2(data[least]) = 0)
        gains ==
            IF first(data21, self_gain) # "none" THEN first(data21, self_gain)
            ELSE LET freqs == [i \in DOMAIN data21 |-> data21[i][1]]
                 IN  first(freqs, formatFrequency)
        l == findLocation
    IN  IF l.exc # "none" THEN l.exc
        ELSE IF l.location # -1 /\ marker(l.location) # "none"
        THEN marker(l.location)
        ELSE IF minVSWR # "none" THEN minVSWR
        ELSE gains

\* NanoVNASaver.dataUpdated, run by the host for a queued updated signal:
\* dataLock.acquire(blocking=True), then it reads self.data / self.data21
app_dataUpdated_acquire ==
    /\ app.updatedQueued
    /\ app.dataLock = "free"
    /\ app' = [app EXCEPT !.dataLock = "host", !.updatedQueued = FALSE]
    /\ UNCHANGED <<w, vna, loc, pc, sig, env, planVars, hostVars>>

\* NanoVNASaver.dataUpdated: its body and its last statement,
\* dataLock.release(), which an exception of the body skips
app_dataUpdated_release ==
    /\ app.dataLock = "host"
    /\ app.hostExc = "none"
    /\ LET exc == dataUpdated(AppData[1], AppData[2], app.marker)
       IN  app' = IF exc = "none" THEN [app EXCEPT !.dataLock = "free"]
                  ELSE [app EXCEPT !.hostExc = exc]
    /\ UNCHANGED <<w, vna, loc, pc, sig, env, planVars, hostVars>>

(***************************************************************************)
(* SpecData: the same worker against an instrument that always answers     *)
(* well, with the host displaying the data on every updated signal.        *)
(***************************************************************************)
InitData ==
    /\ p_args = [start |-> 1, end |-> 5, points |-> 1, sweeps |-> 1]
    /\ p_sweep = NoObject /\ p_exc = "unbuilt" /\ p_ranges = <<>>
    /\ w = WorkerInit
    /\ app = AppInit
    /\ vna = [VnaInit EXCEPT !.kinds = {"good", "split"}]
    /\ loc = LocInit
    /\ pc = "idle"
    /\ sig = SigInit
    /\ env = EnvInit
    /\ HostUnused

NextData ==
    \/ Next
    \/ app_dataUpdated_acquire
    \/ app_dataUpdated_release

SpecData == InitData /\ [][NextData]_vars

(***************************************************************************)
(* SpecShow: one saveData call of the worker and the dataUpdated calls of  *)
(* the host, for bounded lists of samples: none, one or two points, among  *)
(* them the matched sample (0, 0), the open circuit (1, 0), a sample of    *)
(* magnitude 1 and one without an imaginary part; the markers unset or set *)
(* to a frequency of the sweep.                                            *)
(***************************************************************************)
ShowSamples == {<<0, 0>>, <<12, 6>>, <<60, 0>>, <<0, 60>>, <<30, 0>>}

\* the lists of n points the worker may hold, at frequencies 1, 5, ...
ShowLists(n) ==
    {[i \in 1 .. n |-> Datapoint(4 * i - 3, v[i][1], v[i][2])] :
        v \in [1 .. n -> ShowSamples]}

InitShow ==
    /\ p_args = [start |-> 1, end |-> 5, points |-> 1, sweeps |-> 1]
    /\ p_sweep = NoObject /\ p_exc = "unbuilt" /\ p_ranges = <<>>
    /\ \E n \in 0 .. MaxDatapoints, m \in 0 .. MaxDatapoints :
           /\ m \in {0, n}
           /\ \E d11 \in ShowLists(n), d21 \in ShowLists(m) :
                  w = [WorkerInit EXCEPT !.data11 = d11, !.data21 = d21,
                                         !.rawData11 = d11, !.rawData21 = d21]
    /\ \E f \in {0, 1, 5}, q \in BOOLEAN :
           app = [AppInit EXCEPT !.marker = f, !.updatedQueued = q]
    /\ vna = VnaInit
    /\ loc = LocInit
    /\ pc = "app_saveData"
    /\ sig = SigInit
    /\ env = EnvInit
    /\ HostUnused

NextShow ==
    \/ app_saveData_acquire
    \/ app_saveData_set
    \/ app_dataUpdated_acquire
    \/ app_dataUpdated_release

SpecShow == InitShow /\ [][NextShow]_vars

\* C35: dataLock is released at the end of every saveData and dataUpdated
\* call on every path: a dataUpdated that has ended, by an exception too, does
\* not leave dataLock held by the host, and the worker holds it only inside
\* saveData.
C35_DataLockReleasedOnEveryPath ==
    /\ app.hostExc # "none" => app.dataLock # "host"
    /\ app.dataLock = "worker" => pc = "app_saveData_locked"

(***************************************************************************)
(* Properties of a run, stated over Spec and SpecData.                     *)
(***************************************************************************)
\* run() has returned or has been left by an exception
RunEnded == env.runs >= 1 /\ pc \in {"done", "escaped"}

\* C2: after ten consecutive failed reads of a data channel the sweep ends
\* as a reported error: the message is recorded, sweepError is emitted,
\* running is False and the I/O exception does not leave run().
C2_TenFailuresReported ==
    loc.count = MaxTries =>
        /\ pc # "escaped"
        /\ sig.exc = "none"
        /\ sig.sweepError >= 1
        /\ w.error_message # ""
        /\ ~w.running

\* positions of segment i in the full-span buffers (1-based)
SegmentPositions(i, points) == (i * points + 1) .. ((i + 1) * points)

\* buffer `new` holds sample j of the segment just read at the segment's
\* j-th position and agrees with `old` on every position of another segment
Merged(old, new, i, points, freq, val) ==
    /\ \A j \in 1 .. points :
          LET pos == i * points + j
          IN  /\ pos <= Len(new)
              /\ new[pos] = Datapoint(freq[j], val[j][1], val[j][2])
    /\ \A pos \in 1 .. Len(old) :
          (pos \notin SegmentPositions(i, points) /\ pos <= Len(new))
              => new[pos] = old[pos]

\* C4: the publish step of segment i puts the samples just read for it at
\* positions [i*points, (i+1)*points) of the corrected and raw buffers,
\* leaves the other segments' entries alone and emits updated, on the first
\* pass and on later passes and re-runs alike.
C4_PublishMergesSegment ==
    [][ /\ ( /\ pc \in {"updateData", "saveData"}
             /\ pc' # pc
             /\ Len(loc.freq) = w.sweep.points
             /\ Len(loc.val11) = w.sweep.points
             /\ Len(loc.val21) = w.sweep.points )
          => /\ pc' = "app_saveData"
             /\ Merged(w.rawData11, w'.rawData11, loc.i, w.sweep.points,
                       loc.freq, loc.val11)
             /\ Merged(w.rawData21, w'.rawData21, loc.i, w.sweep.points,
                       loc.freq, loc.val21)
             /\ Merged(w.data11, w'.data11, loc.i, w.sweep.points,
                       loc.freq, loc.val11)
             /\ Merged(w.data21, w'.data21, loc.i, w.sweep.points,
                       loc.freq, loc.val21)
        /\ (pc = "app_saveData_locked" /\ pc' # pc)
              => sig'.updated = sig.updated + 1
      ]_vars

\* C6: every store into the result lists the host reads in dataUpdated is
\* made while the worker holds dataLock, and the worker never holds dataLock
\* while it reads from the instrument.
C6_BuffersWrittenUnderDataLock ==
    /\ (pc = "updateData" /\ Len(loc.values11) > 0 /\ app.data.ref = "worker")
          => app.dataLock = "worker"
    /\ pc = "app_saveData_locked" => app.dataLock = "worker"
    /\ pc \in {"readSegment", "data0", "data1", "segment_end"}
          => app.dataLock # "worker"

\* C8: once the host has set stopped during a run, no further segment and no
\* further averaging repeat starts; setting the flag leaves the read in
\* flight alone; and the run ends by emitting finished.
C8_StopEndsRunWithFinished ==
    /\ [][ /\ w.stopped => /\ pc' = "readSegment" => pc = "readSegment"
                           /\ pc = "segment" => pc' \notin {"average", "readSegment"}
           /\ (~w.stopped /\ w'.stopped /\ pc \in {"readSegment", "data0", "data1"})
                 => (pc' = pc /\ loc' = loc)
         ]_vars
    /\ [](sig.stopRequested /\ RunEnded => pc = "done" /\ sig.finished = 1)

\* C32: the stop or error state of one run does not carry over: when the
\* host starts run() again, the stop flag is clear, so that the new run reads
\* every segment unless it is stopped or fails itself.
C32_StopDoesNotCarryOver ==
    [][(pc # "run" /\ pc' = "run") => ~w'.stopped]_vars

\* C34: percentage is within 0 and 100 in every reachable state, during the
\* repeats of an averaged segment and on the later passes of a continuous
\* sweep too, and it is 100 when the run has finished.
C34_PercentageWithinBounds ==
    /\ 0 <= w.percentage[1]
    /\ w.percentage[1] <= w.percentage[2]
    /\ (pc = "done" /\ sig.finished = 1) => w.percentage[1] = w.percentage[2]

\* C38: when the host asks to stop while an averaged segment is acquired, the
\* segment that readAveragedSegment returns is well-formed - as many S11 and
\* S21 entries as frequencies, averaged over at least one completed read, or
\* empty lists - and the run ends by emitting finished.
C38_StoppedAverageWellFormed ==
    /\ (pc = "publish" /\ w.averaging /\ w.stopped) =>
           /\ ~loc.nan
           /\ Len(loc.val11) = Len(loc.freq)
           /\ Len(loc.val21) = Len(loc.freq)
    /\ (w.averaging /\ sig.stopRequested /\ RunEnded) =>
           pc = "done" /\ sig.finished = 1

\* the plan the spec calls valid: positive start, end, points and segment
\* count, end above start, and a step (end - start) / (points*segments - 1)
\* that exists and is at least 1
PlanValid(start, end, points, sweeps) ==
    /\ start > 0 /\ end > 0 /\ points > 0 /\ sweeps > 0
    /\ end > start
    /\ points * sweeps > 1
    /\ end - start >= points * sweeps - 1

\* the plan run() builds from the host's inputs is invalid
InputsInvalid ==
    \/ ~app.sweepCountInput.ok
    \/ ~PlanValid(app.sweepStartInput, app.sweepEndInput, vna.datapoints,
                  app.sweepCountInput.val)

\* C9: with an invalid plan run() reports a sweep error with a message, ends
\* with running = False and sends the instrument nothing.
C9_InvalidPlanReported ==
    (RunEnded /\ vna.connected /\ InputsInvalid) =>
        /\ pc = "done"
        /\ sig.sweepError >= 1
        /\ w.error_message # ""
        /\ ~w.running
        /\ ~sig.touched

\* C10: started while the instrument is not connected, run() sends the
\* instrument nothing, ends with running = False and reports the condition
\* by an error signal or an error value.
C10_NotConnectedReported ==
    (RunEnded /\ ~vna.connected) =>
        /\ ~sig.touched
        /\ ~w.running
        /\ (sig.sweepError >= 1 \/ w.error_message = "Not connected")

\* C12: a segment whose frequency list, S11 values and S21 values differ in
\* length is treated as empty: it leads to no sweep error (and to no other
\* exception), none of its samples is published, and the run goes on to the
\* next segment.
C12_MismatchedSegmentSkipped ==
    [][ (loc.mismatch /\ pc' # pc) =>
          /\ pc = "average_post" => pc' = "publish"
          /\ (pc = "segment_end" /\ ~w.averaging) =>
                 (pc' = "publish" /\ loc'.freq = <<>>
                    /\ loc'.val11 = <<>> /\ loc'.val21 = <<>>)
          /\ pc \in {"publish", "updateData", "saveData"} =>
                 pc' \notin {"except", "escaped"}
      ]_vars

\* C14: with continuousSweep enabled, a pass that ran to the end of the
\* segments is followed by segment 0 of the next pass, and finished is only
\* emitted once stopped is set; with continuousSweep disabled the end of the
\* first pass leads to finished, emitted once.
C14_ContinuousSweepReenters ==
    [][ /\ (pc = "pass_end" /\ pc' # pc /\ w.continuousSweep /\ ~loc.finished)
             => (pc' = "segment" /\ loc'.i = 0 /\ env'.passes = env.passes + 1
                   /\ sig'.finished = sig.finished)
        /\ (sig'.finished # sig.finished /\ pc' # "run" /\ w.continuousSweep)
             => w.stopped
        /\ (pc = "pass_end" /\ pc' # pc /\ ~w.continuousSweep)
             => (pc' = "finish" /\ env.passes = 1 /\ sig.finished = 0)
        /\ (pc = "finish" /\ pc' # pc)
             => (pc' = "done" /\ sig'.finished = 1)
      ]_vars

\* a second pass has begun at segment 0 with nothing stopped or finished
C14_Witness ==
    /\ pc = "segment" /\ loc.i = 0 /\ env.passes = 2
    /\ w.continuousSweep /\ ~w.stopped /\ w.running
    /\ sig.finished = 0 /\ sig.sweepError = 0

\* C15: every run that was started and has ended left running False and
\* ended in one outcome only: it did not signal both a sweep error and
\* finished, and it signalled at most one of each.
C15_OneTerminalOutcome ==
    (env.runs > 0 /\ pc \in {"done", "escaped"}) =>
        /\ ~w.running
        /\ sig.sweepError + sig.finished <= 1

\* C16: a run that went through its segment loop to the end has, when its
\* plan has more than one segment, written a sweep command carrying the
\* requested start and end, followed by resume; with one segment, and in a
\* run that ended before the loop, nothing was written.
C16_ResetToFullSpan ==
    (env.runs > 0 /\ pc = "done") =>
        IF sig.finished >= 1 /\ w.sweep.sweeps > 1
        THEN /\ vna.reset.cmd = "sweep"
             /\ Len(vna.reset.args) >= 2
             /\ vna.reset.args[1] = Number(app.sweepStartInput)
             /\ vna.reset.args[2] = Number(app.sweepEndInput)
             /\ vna.reset.resume
        ELSE vna.reset = NoReset

(***************************************************************************)
(* SpecHost: the host window's GUI thread, its thread pool running the     *)
(* worker, and the serial port behind serialLock.  A run is followed at    *)
(* the grain of its instrument exchanges (one segment: the sweep command,  *)
(* frequencies, data 0, data 1).                                           *)
(***************************************************************************)
\* serialLock.acquire() returns when the lock is free
CanAcquire_mut(lock) == TRUE
CanAcquire(lock) == lock = Free

CallerPc(c) == IF c = Gui THEN host.pc ELSE thr[c].pc
CallerIo(c) == IF c = Gui THEN host.io ELSE thr[c].io

\* where a caller stands on entering the call made at position p: writeSerial
\* first tests is_open, the others start with serialLock.acquire()
IoStart(p) ==
    CASE p = "setSweep" -> "check"
      [] p \in {"frequencies", "data0", "data1", "flush", "readFirmware"}
            -> "acquire"
      [] OTHER -> "none"

\* the statement after the call at position p: readSegment and readData in
\* the worker, startSerial in the GUI thread
AfterExchange(c, p) ==
    IF c = Gui
    THEN CASE p = "flush" -> "readFirmware"
           [] p = "readFirmware" -> "frequencies"
           [] OTHER -> "startSerial_sweep"
    ELSE CASE p = "setSweep" -> "frequencies"
           [] p = "frequencies" -> "data0"
           [] p = "data0" -> "data1"
           [] OTHER -> "emit"

\* caller c goes to position p, io state i, with the host's fields as in h
Moved(c, h, p, i) ==
    IF c = Gui
    THEN /\ host' = [h EXCEPT !.pc = p, !.io = i]
         /\ thr' = thr
    ELSE /\ host' = h
         /\ thr' = [thr EXCEPT ![c] = [pc |-> p, io |-> i]]

\* caller c returns from the call at its position
Returned(c, h) ==
    LET n == AfterExchange(c, CallerPc(c))
    IN  Moved(c, h, n, IoStart(n))

FreeThreads(h, th) == {t \in 1 .. h.maxThreadCount : th[t].pc = "free"}

\* QThreadPool.start(self.worker): run it on a free thread at once, else
\* put it in the queue
threadpool_start(h, th) ==
    IF FreeThreads(h, th) # {}
    THEN LET t == CHOOSE x \in FreeThreads(h, th) :
                     \A y \in FreeThreads(h, th) : x <= y
         IN  [host |-> h,
              thr |-> [th EXCEPT ![t] = [pc |-> "run", io |-> "none"]]]
    ELSE [host |-> [h EXCEPT !.queued = @ + 1], thr |-> th]

\* NanoVNASaver.sweep()
NanoVNASaver_sweep(h, th) ==
    IF ~h.is_open THEN [host |-> h, thr |-> th]
    ELSE threadpool_start([h EXCEPT !.btnSweep = FALSE], th)

PoolHasRoom == FreeThreads(host, thr) # {} \/ host.queued < MaxQueued

\* the GUI thread is in the event loop with no finished signal waiting
GuiReady == host.pc = "idle" /\ host.finishedQueue = 0

\* the sweep button is clicked
btnSweep_clicked ==
    /\ GuiReady /\ host.btnSweep /\ PoolHasRoom
    /\ LET r == NanoVNASaver_sweep(host, thr)
       IN  host' = r.host /\ thr' = r.thr
    /\ UNCHANGED <<planVars, workVars>>

\* serialButtonClick: on to stopSerial or to startSerial, each of which
\* begins with serialLock.acquire()
serialButtonClick ==
    /\ GuiReady
    /\ host.is_open \/ PoolHasRoom
    /\ host' = [host EXCEPT !.pc = IF host.is_open THEN "stopSerial"
                                  ELSE "startSerial"]
    /\ UNCHANGED <<thr, planVars, workVars>>

\* stopSerial: acquire, close, release
stopSerial ==
    /\ host.pc = "stopSerial"
    /\ CanAcquire(host.serialLock)
    /\ host' = [host EXCEPT !.is_open = FALSE, !.serialLock = Free,
                            !.pc = "idle"]
    /\ UNCHANGED <<thr, planVars, workVars>>

\* startSerial: acquire, open the port (which may fail), release; then on to
\* flushSerialBuffers
startSerial ==
    /\ host.pc = "startSerial"
    /\ CanAcquire(host.serialLock)
    /\ \E opened \in BOOLEAN :
          host' = IF opened
                  THEN [host EXCEPT !.is_open = TRUE, !.serialLock = Free,
                                    !.pc = "flush", !.io = IoStart("flush")]
                  ELSE [host EXCEPT !.serialLock = Free, !.pc = "idle"]
    /\ UNCHANGED <<thr, planVars, workVars>>

\* startSerial: its last statement, self.sweep()
startSerial_sweep ==
    /\ host.pc = "startSerial_sweep"
    /\ LET r == NanoVNASaver_sweep([host EXCEPT !.pc = "idle"], thr)
       IN  host' = r.host /\ thr' = r.thr
    /\ UNCHANGED <<planVars, workVars>>

\* writeSerial: "if not self.serial.is_open: return", before the lock
writeSerial_check ==
    /\ \E c \in Callers :
          /\ CallerIo(c) = "check"
          /\ IF host.is_open THEN Moved(c, host, CallerPc(c), "acquire")
             ELSE Returned(c, host)
    /\ UNCHANGED <<planVars, workVars>>

\* serialLock.acquire() in writeSerial, readValues, readFirmware and
\* flushSerialBuffers
serialLock_acquire ==
    /\ \E c \in Callers :
          /\ CallerIo(c) = "acquire"
          /\ CanAcquire(host.serialLock)
          /\ Moved(c, [host EXCEPT !.serialLock = c], CallerPc(c), "write")
    /\ UNCHANGED <<planVars, workVars>>

\* under the lock: drain and send the command.  On a closed port the write
\* raises SerialException, which writeSerial, readValues and readFirmware
\* catch; writeSerial then releases, the other two go on to read.
\* flushSerialBuffers sends and resets the buffers, then releases.
serial_write ==
    /\ \E c \in Callers :
          /\ CallerIo(c) = "write"
          /\ CASE CallerPc(c) = "flush" ->
                    IF host.is_open
                    THEN Returned(c, [host EXCEPT !.serialLock = Free])
                    ELSE Moved(c, [host EXCEPT !.serialLock = Orphaned],
                               "idle", "none")
               [] CallerPc(c) = "setSweep" ->
                    IF host.is_open
                    THEN Moved(c, [host EXCEPT !.inflight = c],
                               CallerPc(c), "read")
                    ELSE Returned(c, [host EXCEPT !.serialLock = Free])
               [] OTHER ->
                    Moved(c, [host EXCEPT !.inflight =
                                     IF host.is_open THEN c ELSE @],
                          CallerPc(c), "read")
    /\ UNCHANGED <<planVars, workVars>>

\* under the lock: read the response, then serialLock.release().  The read
\* loop of readValues and readFirmware is outside their try: on a closed
\* port the exception leaves the caller with the lock still taken.
serial_read ==
    /\ \E c \in Callers :
          /\ CallerIo(c) = "read"
          /\ IF host.is_open
             THEN Returned(c, [host EXCEPT !.inflight = Free,
                                           !.serialLock = Free])
             ELSE Moved(c, [host EXCEPT !.serialLock = Orphaned],
                        IF c = Gui THEN "idle" ELSE "return", "none")
    /\ UNCHANGED <<planVars, workVars>>

\* run() on thread t, up to the first instrument command: not connected
\* means a silent return
thr_run ==
    /\ \E t \in Threads :
          /\ thr[t].pc = "run"
          /\ thr' = [thr EXCEPT ![t] =
                        IF host.is_open
                        THEN [pc |-> "setSweep", io |-> IoStart("setSweep")]
                        ELSE [pc |-> "return", io |-> "none"]]
    /\ UNCHANGED <<host, planVars, workVars>>

\* run(): self.signals.finished.emit(), queued to the GUI thread
thr_emit ==
    /\ \E t \in Threads :
          /\ thr[t].pc = "emit"
          /\ thr' = [thr EXCEPT ![t] = [pc |-> "return", io |-> "none"]]
    /\ host' = [host EXCEPT !.finishedQueue = @ + 1]
    /\ UNCHANGED <<planVars, workVars>>

\* run() returns (or was left by an exception); the pool's thread takes the
\* next queued runnable, if any
thr_return ==
    /\ \E t \in Threads :
          /\ thr[t].pc = "return"
          /\ IF host.queued > 0
             THEN /\ thr' = [thr EXCEPT ![t] = [pc |-> "run", io |-> "none"]]
                  /\ host' = [host EXCEPT !.queued = @ - 1]
             ELSE /\ thr' = [thr EXCEPT ![t] = [pc |-> "free", io |-> "none"]]
                  /\ host' = host
    /\ UNCHANGED <<planVars, workVars>>

\* CalibrationWindow.automaticCalibration: the assistant's button
automaticCalibration ==
    /\ GuiReady /\ host.btn_automatic /\ PoolHasRoom
    /\ \E ok \in BOOLEAN :
          IF ok /\ host.is_open
          THEN LET r == NanoVNASaver_sweep(
                            [host EXCEPT !.btn_automatic = FALSE,
                                         !.nextStep = 0,
                                         !.connected = TRUE], thr)
               IN  host' = r.host /\ thr' = r.thr
          ELSE UNCHANGED <<host, thr>>
    /\ UNCHANGED <<planVars, workVars>>

\* CalibrationWindow.automaticCalibrationStep applied to the host's fields,
\* with the operator's response to its dialog: save the standard just swept,
\* then sweep the next one (Ok), end with the one-port calibration (Apply
\* after load) or the two-port one (Apply after through), or cancel.  The
\* Apply after through returns without disconnect and leaves nextStep at 4.
automaticCalibrationStep(h, th, response) ==
    LET cancel == [host |-> [h EXCEPT !.nextStep = -1, !.btn_automatic = TRUE,
                                      !.connected = FALSE],
                   thr |-> th]
    IN  CASE h.nextStep = -1 ->
               [host |-> [h EXCEPT !.connected = FALSE], thr |-> th]
          [] h.nextStep \in {0, 1, 3} ->
               IF response = "Ok"
               THEN NanoVNASaver_sweep([h EXCEPT !.nextStep = @ + 1], th)
               ELSE cancel
          [] h.nextStep = 2 ->
               IF response = "Apply"
               THEN [host |-> [h EXCEPT !.nextStep = -1, !.connected = FALSE,
                                        !.btn_automatic = TRUE],
                     thr |-> th]
               ELSE IF response = "Ok"
               THEN NanoVNASaver_sweep([h EXCEPT !.nextStep = @ + 1], th)
               ELSE cancel
          [] OTHER ->
               IF response = "Apply"
               THEN [host |-> [h EXCEPT !.btn_automatic = TRUE], thr |-> th]
               ELSE cancel

\* the GUI thread handles one finished signal: sweepFinished, then the
\* assistant's step if it is connected
finished_handled ==
    /\ host.pc = "idle"
    /\ host.finishedQueue > 0
    /\ PoolHasRoom
    /\ LET h == [host EXCEPT !.finishedQueue = @ - 1, !.btnSweep = TRUE]
       IN  IF h.connected
           THEN \E response \in {"Ok", "Apply", "Cancel"} :
                   LET r == automaticCalibrationStep(h, thr, response)
                   IN  host' = r.host /\ thr' = r.thr
           ELSE host' = h /\ thr' = thr
    /\ UNCHANGED <<planVars, workVars>>

\* the Apply button of the calibration window is clicked: the GUI thread
\* enters CalibrationWindow.calculate, which tests nothing of the worker
calculate_clicked ==
    /\ GuiReady
    /\ host' = [host EXCEPT !.pc = "calculate"]
    /\ UNCHANGED <<thr, planVars, workVars>>

\* calculateCorrections has run (on the calibration without standards of
\* this specification it returns False and changes nothing) and calculate
\* returns to the event loop
calculate_return ==
    /\ host.pc = "calculate"
    /\ host' = [host EXCEPT !.pc = "idle"]
    /\ UNCHANGED <<thr, planVars, workVars>>

InitHost ==
    /\ p_args = [start |-> 1, end |-> 5, points |-> 1, sweeps |-> 1]
    /\ p_sweep = NoObject /\ p_exc = "unbuilt" /\ p_ranges = <<>>
    /\ WorkerUnused
    /\ \E n \in 1 .. MaxThreads : host = [HostInit EXCEPT !.maxThreadCount = n]
    /\ thr = ThrInit

NextHost ==
    \/ btnSweep_clicked
    \/ serialButtonClick
    \/ stopSerial
    \/ startSerial
    \/ startSerial_sweep
    \/ writeSerial_check
    \/ serialLock_acquire
    \/ serial_write
    \/ serial_read
    \/ thr_run
    \/ thr_emit
    \/ thr_return
    \/ automaticCalibration
    \/ finished_handled
    \/ calculate_clicked
    \/ calculate_return

SpecHost == InitHost /\ [][NextHost]_vars

\* executions of run() that have started and not yet emitted finished
ActiveRuns == {t \in Threads : thr[t].pc \notin {"free", "return"}}

\* C5: at most one execution of run() is active at any time.
C5_OneRunAtATime == Cardinality(ActiveRuns) <= 1

\* C30: calculateCorrections never executes while an execution of run() is
\* active.
C30_CalculationNotDuringRun == host.pc = "calculate" => ActiveRuns = {}

\* C39: whenever the calibration assistant is not under way (it was
\* completed with Apply after the one-port or the two-port steps, or it was
\* cancelled, and its button is enabled again), its step handler is not
\* connected to the finished signal and nextStep is -1.
C39_AssistantEndsDisconnected ==
    host.btn_automatic => ~host.connected /\ host.nextStep = -1

\* callers between the write of a command and the end of its response read
InExchange == {c \in Callers : CallerIo(c) \in {"write", "read"}}

\* C7: every exchange with the instrument is made, from its write to the end
\* of its response read, by the caller that holds serialLock, so no two
\* callers are in an exchange at once and a response in flight belongs to
\* the holder of the lock.
C7_ExchangesUnderSerialLock ==
    /\ \A c \in InExchange : host.serialLock = c
    /\ Cardinality(InExchange) <= 1
    /\ host.inflight # Free => host.inflight = host.serialLock

\* a caller is reading its response while another one waits for the lock
C7_Witness ==
    \E c \in Callers :
        /\ CallerIo(c) = "read" /\ host.inflight = c
        /\ \/ \E d \in Callers \ {c} : CallerIo(d) = "acquire"
           \/ host.pc \in {"stopSerial", "startSerial"}

(***************************************************************************)
(* SpecAvg: the post-processing of readAveragedSegment alone, on every     *)
(* list of up to MaxRepeats repeats of two bins drawn from Samples (the     *)
(* second bin and the S21 lists are rearrangements of the first).          *)
(***************************************************************************)
\* (re, im) samples in units of 1/60: two near each other and one far off
Samples == {<<0, 0>>, <<60, 0>>, <<540, -540>>}

InitAvg ==
    /\ p_args = [start |-> 1, end |-> 5, points |-> 1, sweeps |-> 1]
    /\ p_sweep = NoObject /\ p_exc = "unbuilt" /\ p_ranges = <<>>
    /\ HostUnused
    /\ app = AppInit
    /\ vna = VnaInit
    /\ pc = "average_post"
    /\ sig = [SigInit EXCEPT !.touched = TRUE]
    /\ env = [EnvInit EXCEPT !.runs = 1, !.passes = 1]
    /\ \E n \in 1 .. MaxRepeats, t \in 0 .. MaxRepeats - 1 :
          /\ t < n
          /\ w = [WorkerInit EXCEPT !.running = TRUE, !.averaging = TRUE,
                                    !.averages = n, !.truncates = t]
          /\ \E s \in [1 .. n -> Samples] :
                loc = [LocInit EXCEPT
                          !.first_sweep = TRUE, !.k = n, !.freq = <<1, 5>>,
                          !.acc11 = [r \in 1 .. n |-> <<s[r], s[n + 1 - r]>>],
                          !.acc21 = [r \in 1 .. n |->
                                        <<s[n + 1 - r], <<s[r][2], s[r][1]>> >>]]

\* readAveragedSegment's post-processing, with the repeats kept for reference
readAveragedSegment_result == AveragePost(loc)

NextAvg == readAveragedSegment_result

SpecAvg == InitAvg /\ [][NextAvg]_vars

\* the samples of bin j over the repeats
Bin(acc, j) == [r \in 1 .. Len(acc) |-> acc[r][j]]

\* n*n times the squared distance of sample a from the mean of all n samples
FarFromMean(vs, a) ==
    LET n  == Len(vs)
        dr == n * vs[a][1] - SumRe(vs, n)
        di == n * vs[a][2] - SumIm(vs, n)
    IN  dr * dr + di * di

RECURSIVE KeptSum(_, _, _, _)
KeptSum(vs, K, n, col) ==
    IF n = 0 THEN 0
    ELSE (IF n \in K THEN vs[n][col] ELSE 0) + KeptSum(vs, K, n - 1, col)

\* the means of `keep` samples of vs none of which is farther from the mean
\* of all samples than a discarded one
TrimmedMeans(vs, keep) ==
    {<<KeptSum(vs, K, Len(vs), 1) \div keep, KeptSum(vs, K, Len(vs), 2) \div keep>> :
        K \in {X \in SUBSET (1 .. Len(vs)) :
                  /\ Cardinality(X) = keep
                  /\ \A a \in X, b \in (1 .. Len(vs)) \ X :
                        FarFromMean(vs, a) <= FarFromMean(vs, b)}}

\* C13: with n repeats and 0 < truncates < n, the segment result of each bin
\* of each channel is the mean of the n - truncates samples of that bin
\* closest to the mean of all n of them.
C13_TrimmedMean ==
    [][ (pc = "average_post" /\ 0 < w.truncates /\ w.truncates < Len(loc.acc11))
          => /\ pc' = "publish"
             /\ Len(loc'.val11) = 2 /\ Len(loc'.val21) = 2
             /\ \A j \in 1 .. 2 :
                   /\ loc'.val11[j] \in TrimmedMeans(Bin(loc.acc11, j),
                                           Len(loc.acc11) - w.truncates)
                   /\ loc'.val21[j] \in TrimmedMeans(Bin(loc.acc21, j),
                                           Len(loc.acc21) - w.truncates)
      ]_vars

\* five repeats, one of them far off, truncates = 1: the result of bin 1 is
\* the mean of the four near ones and not the mean of all five
C13_Witness ==
    /\ pc = "publish"
    /\ Len(loc.acc11) = 5 /\ w.truncates = 1
    /\ Cardinality({r \in 1 .. 5 : loc.acc11[r][1] = <<540, -540>>}) = 1
    /\ LET vs   == Bin(loc.acc11, 1)
           near == {r \in 1 .. 5 : vs[r] # <<540, -540>>}
       IN  /\ loc.val11[1] = <<KeptSum(vs, near, 5, 1) \div 4,
                               KeptSum(vs, near, 5, 2) \div 4>>
           /\ loc.val11[1] # <<SumRe(vs, 5) \div 5, SumIm(vs, 5) \div 5>>

(***************************************************************************)
(* SpecCal: the operator saves sweeps as calibration standards, calculates  *)
(* and resets the calibration, while the worker applies it to the samples   *)
(* it publishes.  pc is "cal" after an operation on the standards, and      *)
(* tells how the last calculation or the last publication ended.            *)
(***************************************************************************)
\* the frequency of point j of a saved sweep
CalFreq(j) == 4 * j - 3

\* the sweeps the operator saves: none, one or MaxCalPoints points, each
\* measured as val, but for the last, measured as one of last
CalSweeps(val, last) ==
    UNION {{[j \in 1 .. n |->
                IF j < n THEN Datapoint(CalFreq(j), val[1], val[2])
                ELSE Datapoint(CalFreq(j), v[1], v[2])] : v \in last} :
           n \in {0, 1, MaxCalPoints}}

CalOutcomes == {"cal_ok", "cal_failed", "cal_raised"}

\* CalibrationWindow.saveShort: calibration.s11short = app.data
saveShort ==
    /\ \E d \in CalSweeps(CZero, {CZero}) :
          app' = [app EXCEPT !.calibration.s11short = d]
    /\ pc' = "cal"
    /\ UNCHANGED <<w, vna, loc, sig, env, planVars, hostVars>>

\* CalibrationWindow.saveOpen
saveOpen ==
    /\ \E d \in CalSweeps(COne, {COne, CZero}) :
          app' = [app EXCEPT !.calibration.s11open = d]
    /\ pc' = "cal"
    /\ UNCHANGED <<w, vna, loc, sig, env, planVars, hostVars>>

\* CalibrationWindow.saveLoad
saveLoad ==
    /\ \E d \in CalSweeps(CZero, {CZero}) :
          app' = [app EXCEPT !.calibration.s11load = d]
    /\ pc' = "cal"
    /\ UNCHANGED <<w, vna, loc, sig, env, planVars, hostVars>>

\* CalibrationWindow.saveIsolation: calibration.s21isolation = app.data21
saveIsolation ==
    /\ \E d \in CalSweeps(CZero, {CZero}) :
          app' = [app EXCEPT !.calibration.s21isolation = d]
    /\ pc' = "cal"
    /\ UNCHANGED <<w, vna, loc, sig, env, planVars, hostVars>>

\* CalibrationWindow.saveThrough
saveThrough ==
    /\ \E d \in CalSweeps(COne, {COne}) :
          app' = [app EXCEPT !.calibration.s21through = d]
    /\ pc' = "cal"
    /\ UNCHANGED <<w, vna, loc, sig, env, planVars, hostVars>>

reset_mut ==
    /\ app' = app
    /\ pc' = "reset"
    /\ UNCHANGED <<w, vna, loc, sig, env, planVars, hostVars>>

\* CalibrationWindow.reset: app.calibration = Calibration()
reset ==
    /\ app' = [app EXCEPT !.calibration = CalibrationInit]
    /\ pc' = "reset"
    /\ UNCHANGED <<w, vna, loc, sig, env, planVars, hostVars>>

\* CalibrationWindow.calculate with ideal values checked
calculate ==
    /\ LET r == calculateCorrections(app.calibration)
       IN  /\ app' = [app EXCEPT !.calibration = r.cal]
           /\ pc' = CASE r.ret = "True" -> "cal_ok"
                      [] r.ret = "raised" -> "cal_raised"
                      [] OTHER -> "cal_failed"
    /\ UNCHANGED <<w, vna, loc, sig, env, planVars, hostVars>>

\* SweepWorker.saveData for one point: rawData11 and rawData21 are bound,
\* then data11 and data21 to what applyCalibration returns
worker_saveData ==
    /\ \E v \in {CZero, COne} :
          LET raw11 == <<Datapoint(CalFreq(1), v[1], v[2])>>
              raw21 == <<Datapoint(CalFreq(1), v[2], v[1])>>
              r     == applyCalibration(app.calibration, raw11, raw21)
          IN  IF r.exc # "none"
              THEN /\ w' = [w EXCEPT !.rawData11 = raw11, !.rawData21 = raw21]
                   /\ pc' = "cal_escaped"
              ELSE /\ w' = [w EXCEPT !.rawData11 = raw11, !.rawData21 = raw21,
                                     !.data11 = r.data11, !.data21 = r.data21]
                   /\ pc' = "published"
    /\ UNCHANGED <<app, vna, loc, sig, env, planVars, hostVars>>

InitCal ==
    /\ p_args = [start |-> 1, end |-> 5, points |-> 1, sweeps |-> 1]
    /\ p_sweep = NoObject /\ p_exc = "unbuilt" /\ p_ranges = <<>>
    /\ HostUnused
    /\ w = WorkerInit
    /\ app = AppInit
    /\ vna = VnaInit
    /\ loc = LocInit
    /\ sig = SigInit
    /\ env = EnvInit
    /\ pc = "cal"

NextCal ==
    \/ saveShort
    \/ saveOpen
    \/ saveLoad
    \/ saveIsolation
    \/ saveThrough
    \/ reset
    \/ calculate
    \/ worker_saveData

SpecCal == InitCal /\ [][NextCal]_vars

\* C40: in every reachable state the worker's buffers data11, data21,
\* rawData11 and rawData21 have one length, and entry k of each carries the
\* same frequency.
C40_BuffersAligned ==
    LET n == Len(w.data11)
    IN  /\ Len(w.data21) = n
        /\ Len(w.rawData11) = n
        /\ Len(w.rawData21) = n
        /\ \A k \in 1 .. n :
               /\ w.data21[k][1] = w.data11[k][1]
               /\ w.rawData11[k][1] = w.data11[k][1]
               /\ w.rawData21[k][1] = w.data11[k][1]

\* every term of the arrays is a computed one
TermsComplete(cal) ==
    \A arr \in {cal.e00, cal.e11, cal.deltaE} :
        \A i \in 1 .. Len(arr) : arr[i].kind = "term"

\* C17: a calculation either succeeds with every one-port term computed from
\* a non-zero denominator, or returns failure with isCalculated False; so a
\* calibration that counts as calculated never holds placeholder terms.
C17_FailedCalculationNotTrusted ==
    [][ pc' \in CalOutcomes =>
          /\ \/ /\ pc' = "cal_ok"
                /\ app'.calibration.isCalculated
                /\ \A i \in 1 .. Len(app'.calibration.e00) :
                      app'.calibration.e00[i].den # CZero
             \/ /\ pc' = "cal_failed"
                /\ (isValid1Port(app.calibration) =>
                       ~app'.calibration.isCalculated)
          /\ app'.calibration.isCalculated => TermsComplete(app'.calibration)
      ]_vars

\* C18: a calculation on a calibration without short, without open or
\* without load returns failure and changes nothing of the calibration.
C18_IncompleteLeavesPriorState ==
    [][ ( /\ pc' \in CalOutcomes
          /\ \/ Len(app.calibration.s11short) = 0
             \/ Len(app.calibration.s11open) = 0
             \/ Len(app.calibration.s11load) = 0 )
          => (pc' = "cal_failed" /\ app'.calibration = app.calibration)
      ]_vars

\* a calculated calibration lost its open standard, and calculating again
\* failed and kept the terms and isCalculated
C18_Witness ==
    /\ pc = "cal_failed"
    /\ Len(app.calibration.s11open) = 0 /\ Len(app.calibration.s11short) > 0
    /\ app.calibration.isCalculated
    /\ Len(app.calibration.e00) = MaxCalPoints
    /\ TermsComplete(app.calibration)

\* a calibration as the constructor leaves it
Blank(cal) ==
    /\ \A arr \in {cal.s11short, cal.s11open, cal.s11load, cal.s21through,
                   cal.s21isolation} : Len(arr) = 0
    /\ \A arr \in {cal.e00, cal.e11, cal.deltaE, cal.e30, cal.e10e32} :
          Len(arr) = 0
    /\ ~cal.isCalculated

\* C22: isCalculated becomes true only by a calculation that returned
\* success, and stays true only while no reset happens; a reset leaves a
\* calibration with no standards, no terms and isCalculated false.
C22_CalculatedOnlyBySuccess ==
    [][ /\ (app'.calibration.isCalculated /\ ~app.calibration.isCalculated)
              => pc' = "cal_ok"
        /\ pc' = "reset" => Blank(app'.calibration)
      ]_vars

\* a calculation over MaxCalPoints points succeeded on a calibration holding
\* all five standards
C22_Witness ==
    /\ pc = "cal_ok"
    /\ app.calibration.isCalculated
    /\ Len(app.calibration.e10e32) = MaxCalPoints
    /\ Len(app.calibration.s21through) = MaxCalPoints
    /\ Len(app.calibration.s21isolation) = MaxCalPoints

\* C20: while the calibration is not calculated, or lacks short, open or
\* load, the worker publishes each raw S11 sample as the corrected one.
C20_UncalibratedIsRaw ==
    [][ ( /\ pc' \in {"published", "cal_escaped"}
          /\ \/ ~app.calibration.isCalculated
             \/ Len(app.calibration.s11short) = 0
             \/ Len(app.calibration.s11open) = 0
             \/ Len(app.calibration.s11load) = 0 )
          => /\ pc' = "published"
             /\ Len(w'.rawData11) = 1
             /\ w'.data11 = w'.rawData11
      ]_vars

\* a sample published raw under a calculated calibration without its short
C20_Witness ==
    /\ pc = "published"
    /\ app.calibration.isCalculated
    /\ Len(app.calibration.s11short) = 0
    /\ Len(w.rawData11) = 1 /\ w.data11 = w.rawData11
    /\ w.rawData11[1][2] = 1

(***************************************************************************)
(* SpecLookup: correct11 and correct21 called with one sample on a          *)
(* calibration calculated from standards that measured their ideal values   *)
(* on every ascending axis of up to MaxAxis frequencies.  loc.index is the  *)
(* index the call used, counted from 1, loc.value the quotient it returns.  *)
(***************************************************************************)
\* the ascending sequence of the frequencies in S
RECURSIVE Ascending(_)
Ascending(S) ==
    IF S = {} THEN <<>>
    ELSE LET m == CHOOSE x \in S : \A y \in S : x <= y
         IN  <<m>> \o Ascending(S \ {m})

InitLookup ==
    /\ p_args = [start |-> 1, end |-> 5, points |-> 1, sweeps |-> 1]
    /\ p_sweep = NoObject /\ p_exc = "unbuilt" /\ p_ranges = <<>>
    /\ HostUnused
    /\ w = WorkerInit
    /\ vna = VnaInit
    /\ sig = SigInit
    /\ env = EnvInit
    /\ pc = "lookup"
    /\ \E S \in SUBSET (0 .. MaxLookupFreq), f \in 0 .. MaxLookupFreq :
          /\ Cardinality(S) \in 1 .. MaxAxis
          /\ LET axis == Ascending(S)
                 n    == Len(axis)
                 std  == [s11short |-> [j \in 1 .. n |-> Datapoint(axis[j], -1, 0)],
                          s11open |-> [j \in 1 .. n |-> Datapoint(axis[j], 1, 0)],
                          s11load |-> [j \in 1 .. n |-> Datapoint(axis[j], 0, 0)],
                          s21through |-> [j \in 1 .. n |-> Datapoint(axis[j], 1, 0)],
                          s21isolation |-> [j \in 1 .. n |-> Datapoint(axis[j], 0, 0)]]
                 cal  == [c \in DOMAIN CalibrationInit |->
                             IF c \in DOMAIN std THEN std[c] ELSE CalibrationInit[c]]
             IN  /\ app = [AppInit EXCEPT !.calibration = calculateCorrections(cal).cal]
                 /\ loc = [LocInit EXCEPT !.frequencies = <<f>>,
                                          !.values11 = <<<<f - 2, 3 - f>>>>,
                                          !.values21 = <<COne>>]

\* correct11(re, im, freq) for the sample, by a caller that is not inside
\* another lookup
correct11_call ==
    /\ pc \notin {"corrected11", "corrected21"}
    /\ LET r == correct11(app.calibration, loc.values11[1][1],
                          loc.values11[1][2], loc.frequencies[1])
       IN  /\ loc' = [loc EXCEPT !.index = r.index, !.value = r.value]
           /\ sig' = [sig EXCEPT !.exc = r.exc]
    /\ pc' = "corrected11"
    /\ UNCHANGED <<w, app, vna, env, planVars, hostVars>>

\* correct21(re, im, freq) for the sample
correct21_call ==
    /\ pc \notin {"corrected11", "corrected21"}
    /\ LET r == correct21(app.calibration, loc.values21[1][1],
                          loc.values21[1][2], loc.frequencies[1])
       IN  /\ loc' = [loc EXCEPT !.index = r.index, !.value = r.value]
           /\ sig' = [sig EXCEPT !.exc = r.exc]
    /\ pc' = "corrected21"
    /\ UNCHANGED <<w, app, vna, env, planVars, hostVars>>

NextLookup == correct11_call \/ correct21_call

SpecLookup == InitLookup /\ [][NextLookup]_vars

(***************************************************************************)
(* SpecCorrect: the operations of SpecCal on the standards, and between    *)
(* them lookups of one sample at the first or the last frequency of the    *)
(* saved sweeps.                                                           *)
(***************************************************************************)
InitCorrect ==
    /\ p_args = [start |-> 1, end |-> 5, points |-> 1, sweeps |-> 1]
    /\ p_sweep = NoObject /\ p_exc = "unbuilt" /\ p_ranges = <<>>
    /\ HostUnused
    /\ w = WorkerInit
    /\ app = AppInit
    /\ vna = VnaInit
    /\ \E f \in {CalFreq(1), CalFreq(MaxCalPoints)} :
           loc = [LocInit EXCEPT !.frequencies = <<f>>,
                                 !.values11 = <<COne>>, !.values21 = <<COne>>]
    /\ sig = SigInit
    /\ env = EnvInit
    /\ pc = "cal"

NextCorrect ==
    \/ saveShort
    \/ saveOpen
    \/ saveLoad
    \/ saveIsolation
    \/ saveThrough
    \/ reset
    \/ calculate
    \/ correct11_call
    \/ correct21_call

SpecCorrect == InitCorrect /\ [][NextCorrect]_vars

\* C33: when the calibration is calculated and a sample is corrected, the
\* index chosen by correct11 and correct21 addresses an existing entry of the
\* arrays they read, and that entry is a computed term.
C33_LookupIndexInRange ==
    LET cal == app.calibration
    IN  /\ (pc = "corrected11" /\ cal.isCalculated) =>
               \A arr \in {cal.e00, cal.e11, cal.deltaE} :
                   /\ loc.index <= Len(arr)
                   /\ arr[loc.index].kind = "term"
        /\ (pc = "corrected21" /\ cal.isCalculated) =>
               \A arr \in {cal.e30, cal.e10e32} :
                   /\ loc.index <= Len(arr)
                   /\ arr[loc.index].kind = "term"


\* idx is the lowest index of axis whose frequency is nearest to f
LowestNearest(axis, f, idx) ==
    /\ idx \in 1 .. Len(axis)
    /\ \A j \in 1 .. Len(axis) :
          /\ Abs(axis[j][1] - f) >= Abs(axis[idx][1] - f)
          /\ j < idx => Abs(axis[j][1] - f) > Abs(axis[idx][1] - f)

\* C19: correct11 uses the terms of the lowest index whose short frequency
\* is nearest to f, and correct21 those of the lowest index whose through
\* frequency is nearest to f, for every f and every ascending axis.
C19_NearestLowestIndex ==
    /\ pc = "corrected11" =>
          LowestNearest(app.calibration.s11short, loc.frequencies[1], loc.index)
    /\ pc = "corrected21" =>
          LowestNearest(app.calibration.s21through, loc.frequencies[1], loc.index)

\* short, open and load measured as -1, +1 and 0 at every point
MeasuredIdeal(cal) ==
    /\ \A i \in 1 .. Len(cal.s11short) :
          <<cal.s11short[i][2], cal.s11short[i][3]>> = <<-1, 0>>
    /\ \A i \in 1 .. Len(cal.s11open) :
          <<cal.s11open[i][2], cal.s11open[i][3]>> = <<1, 0>>
    /\ \A i \in 1 .. Len(cal.s11load) :
          <<cal.s11load[i][2], cal.s11load[i][3]>> = <<0, 0>>

\* the quotient q has the value v
HasValue(q, v) == q.kind = "term" /\ q.den # CZero /\ q.num = CMul(v, q.den)

\* C21: with the three standards measured at their ideal values, the
\* calculated terms are e00 = 0, e11 = 0 and deltaE = -1 at every index, and
\* correct11 returns the sample it was given.
C21_IdealCalibrationIsIdentity ==
    (pc = "corrected11" /\ MeasuredIdeal(app.calibration)) =>
        /\ app.calibration.isCalculated
        /\ Len(app.calibration.e00) = Len(app.calibration.s11short)
        /\ \A i \in 1 .. Len(app.calibration.s11short) :
              /\ HasValue(app.calibration.e00[i], <<0, 0>>)
              /\ HasValue(app.calibration.e11[i], <<0, 0>>)
              /\ HasValue(app.calibration.deltaE[i], <<-1, 0>>)
        /\ sig.exc = "none"
        /\ HasValue(loc.value, loc.values11[1])

\* a sample with both parts non-zero came back unchanged from a calibration
\* of MaxAxis points
C21_Witness ==
    /\ pc = "corrected11"
    /\ Len(app.calibration.s11short) = MaxAxis
    /\ loc.values11[1][1] # 0 /\ loc.values11[1][2] # 0
    /\ HasValue(loc.value, loc.values11[1])

(***************************************************************************)
(* SpecFile: the calibration file.  A file (env.file) is a sequence of     *)
(* stripped lines, a line the sequence of its fields between single        *)
(* spaces, a field a word as above ("word" is a field neither int() nor    *)
(* float() accepts).  app.calibration is the object that saves, loc.other  *)
(* a second object, the one that loads.                                    *)
(***************************************************************************)
\* "# Calibration data for NanoVNA-Saver" and the header of the columns
TitleLine == <<Word("#", 0)>>
HeaderLine == <<Word("#", 1)>>

\* Calibration.saveCalibration with a filename: what it returns and what the
\* file holds afterwards; an IndexError ends the writing where it stands.
saveCalibration(cal, old) ==
    LET fields(dp) == <<Word("float", dp[2]), Word("float", dp[3])>>
        line7(i) == <<Word("int", cal.s11short[i][1])>>
                        \o fields(cal.s11short[i]) \o fields(cal.s11open[i])
                        \o fields(cal.s11load[i])
        RECURSIVE write(_, _)
        write(file, i) ==
            IF i > Len(cal.s11short) THEN [ret |-> TRUE, file |-> file]
            ELSE IF i > Len(cal.s11open) \/ i > Len(cal.s11load)
            THEN [ret |-> FALSE, file |-> file]
            ELSE IF ~isValid2Port(cal)
            THEN write(Append(file, line7(i)), i + 1)
            ELSE IF i > Len(cal.s21through) \/ i > Len(cal.s21isolation)
            THEN [ret |-> FALSE, file |-> Append(file, line7(i))]
            ELSE write(Append(file, line7(i) \o fields(cal.s21through[i])
                                        \o fields(cal.s21isolation[i])),
                       i + 1)
    IN  IF ~isValid1Port(cal) THEN [ret |-> FALSE, file |-> old]
        ELSE write(<<TitleLine, HeaderLine>>, 1)

loadCalibration_mut(cal, file) == cal

\* Calibration.loadCalibration with a filename of a readable file: the
\* object afterwards.  A ValueError ends the appends of its line only.
loadCalibration(cal, file) ==
    LET py_int(t) == t.kind = "int"
        py_float(t) == t.kind \in {"int", "float"}
        names == <<"s11short", "s11open", "s11load", "s21through",
                   "s21isolation">>
        RECURSIVE appends(_, _, _, _)
        appends(c, l, k, n) ==
            IF k > n THEN c
            ELSE IF ~(py_int(l[1]) /\ py_float(l[2 * k])
                                   /\ py_float(l[2 * k + 1]))
            THEN c
            ELSE appends([c EXCEPT ![names[k]] =
                             Append(@, Datapoint(l[1].v, l[2 * k].v,
                                                 l[2 * k + 1].v))],
                         l, k + 1, n)
        RECURSIVE read(_, _, _)
        read(c, i, parsed_header) ==
            IF i > Len(file) THEN c
            ELSE LET l == file[i]
                 IN  IF l[1].kind = "!" THEN read(c, i + 1, parsed_header)
                     ELSE IF l[1].kind = "#" /\ ~parsed_header
                     THEN read(c, i + 1, l = HeaderLine)
                     ELSE IF ~parsed_header THEN read(c, i + 1, FALSE)
                     ELSE IF Len(l) = 7 THEN read(appends(c, l, 1, 3), i + 1, TRUE)
                     ELSE IF Len(l) = 11 THEN read(appends(c, l, 1, 5), i + 1, TRUE)
                     ELSE read(c, i + 1, TRUE)
    IN  read([cal EXCEPT !.s11short = <<>>, !.s11open = <<>>,
                         !.s11load = <<>>, !.s21through = <<>>,
                         !.s21isolation = <<>>], 1, FALSE)

\* the lines the files of Init are made of
Numbers(n) == [j \in 1 .. n |-> IF j = 1 THEN Word("int", 5)
                                ELSE Word("float", j)]
Lines ==
    {TitleLine, HeaderLine, <<Word("!", 0)>>, Numbers(7), Numbers(11),
     Numbers(5), [Numbers(7) EXCEPT ![1] = Word("float", 5)],
     [Numbers(7) EXCEPT ![4] = Word("word", 0)]}
Files == UNION {[1 .. n -> Lines] : n \in 0 .. MaxLines}

\* the calibrations that save: each standard absent, of one point or of
\* MaxCalPoints points
Standards ==
    {[CalibrationInit EXCEPT !.s11short = s, !.s11open = o, !.s11load = l,
                             !.s21through = t, !.s21isolation = i] :
        s \in CalSweeps(<<-1, 2>>, {<<-1, 2>>}),
        o \in CalSweeps(<<1, 3>>, {<<1, 3>>}),
        l \in CalSweeps(<<0, 4>>, {<<0, 4>>}),
        t \in CalSweeps(<<5, 6>>, {<<5, 6>>}),
        i \in CalSweeps(<<7, 8>>, {<<7, 8>>})}

saveCalibration_call ==
    /\ LET r == saveCalibration(app.calibration, env.file)
       IN  /\ env' = [env EXCEPT !.file = r.file]
           /\ pc' = IF r.ret THEN "saved" ELSE "save_failed"
    /\ UNCHANGED <<w, app, vna, loc, sig, planVars, hostVars>>

loadCalibration_call ==
    /\ loc' = [loc EXCEPT !.other = loadCalibration(loc.other, env.file)]
    /\ pc' = "loaded"
    /\ UNCHANGED <<w, app, vna, env, sig, planVars, hostVars>>

InitFile ==
    /\ p_args = [start |-> 1, end |-> 5, points |-> 1, sweeps |-> 1]
    /\ p_sweep = NoObject /\ p_exc = "unbuilt" /\ p_ranges = <<>>
    /\ HostUnused
    /\ w = WorkerInit
    /\ vna = VnaInit
    /\ sig = SigInit
    /\ \E cal \in Standards, file \in Files :
          /\ cal = CalibrationInit \/ file = <<>>
          /\ app = [AppInit EXCEPT !.calibration = cal]
          /\ env = [EnvInit EXCEPT !.file = file]
    /\ \E d \in {<<>>, <<Datapoint(9, 9, 9)>>} :
          loc = [LocInit EXCEPT !.other =
                    [CalibrationInit EXCEPT !.s11short = d, !.s11open = d,
                        !.s11load = d, !.s21through = d,
                        !.s21isolation = d]]
    /\ pc = "file"

NextFile == saveCalibration_call \/ loadCalibration_call

SpecFile == InitFile /\ [][NextFile]_vars

\* a line that loadCalibration takes as data: 7 or 11 fields, the first an
\* integer and the others numbers
WellFormed(l) ==
    /\ Len(l) \in {7, 11}
    /\ l[1].kind = "int"
    /\ \A j \in 2 .. Len(l) : l[j].kind \in {"int", "float"}

\* the lines after the first header line, comments with "!" left out
RECURSIVE AfterHeader(_)
AfterHeader(file) ==
    IF file = <<>> THEN <<>>
    ELSE IF file[1] = HeaderLine
    THEN SelectSeq(Tail(file), LAMBDA l : l[1].kind # "!")
    ELSE AfterHeader(Tail(file))

\* the points of the standard in columns a and a + 1 that the well-formed
\* lines of a file carry
RECURSIVE Carried(_, _)
Carried(lines, a) ==
    IF lines = <<>> THEN <<>>
    ELSE IF WellFormed(lines[1]) /\ a < Len(lines[1])
    THEN <<Datapoint(lines[1][1].v, lines[1][a].v, lines[1][a + 1].v)>>
            \o Carried(Tail(lines), a)
    ELSE Carried(Tail(lines), a)

\* C23: after loadCalibration each of the five standards holds exactly the
\* points of the well-formed lines after the header, whatever it held
\* before: a malformed line adds nothing, and a file without the header
\* leaves every standard empty.
C23_LoadTakesWellFormedLines ==
    pc = "loaded" =>
        LET lines == AfterHeader(env.file)
        IN  /\ loc.other.s11short = Carried(lines, 2)
            /\ loc.other.s11open = Carried(lines, 4)
            /\ loc.other.s11load = Carried(lines, 6)
            /\ loc.other.s21through = Carried(lines, 8)
            /\ loc.other.s21isolation = Carried(lines, 10)

\* the standards that are present have one length
EqualLength(cal) ==
    \A a, b \in {cal.s11short, cal.s11open, cal.s11load, cal.s21through,
                 cal.s21isolation} : a = <<>> \/ b = <<>> \/ Len(a) = Len(b)

C36_LoadedStandardsAligned ==
    pc = "loaded" =>
        /\ Len(loc.other.s11open) = Len(loc.other.s11short)
        /\ Len(loc.other.s11load) = Len(loc.other.s11short)
        /\ Len(loc.other.s21through) \in {0, Len(loc.other.s11short)}
        /\ Len(loc.other.s21isolation) \in {0, Len(loc.other.s11short)}

(***************************************************************************)
(* SpecTouchstone: Touchstone.load on files written by hand and on files   *)
(* written by exportFileS1P and exportFileS2P from app.data.  env.file is  *)
(* the file, loc.t the object of the load, sig.exc what loads raised.      *)
(***************************************************************************)
\* "# Hz S RI R 50", in the lower case Options.parse turns it into
ExportOptions ==
    <<Word("#", 0), Word("hz", 0), Word("s", 0), Word("ri", 0), Word("r", 0),
      Word("int", 50)>>

\* one line of exportFileS1P and of exportFileS2P
ExportLine(dp) ==
    <<Word("int", dp[1]), Word("float", dp[2]), Word("float", dp[3])>>
ExportLine2(dp, dp21) ==
    ExportLine(dp) \o <<Word("float", dp21[2]), Word("float", dp21[3]),
                        Word("int", 0), Word("int", 0), Word("int", 0),
                        Word("int", 0)>>

\* the lines of data[1 .. n], a point with the frequency of the one before
\* it left out
RECURSIVE ExportLines(_, _, _)
ExportLines(data, data21, n) ==
    IF n = 0 THEN <<>>
    ELSE IF n > 1 /\ data[n][1] = data[n - 1][1]
    THEN ExportLines(data, data21, n - 1)
    ELSE Append(ExportLines(data, data21, n - 1),
                IF data21 = <<>> THEN ExportLine(data[n])
                ELSE ExportLine2(data[n], data21[n]))

\* NanoVNASaver.exportFileS1P with a filename
exportFileS1P ==
    /\ IF Len(app.data.s11) = 0
       THEN pc' = "no_data" /\ env' = env
       ELSE /\ env' = [env EXCEPT !.file = <<ExportOptions>> \o
                         ExportLines(app.data.s11, <<>>, Len(app.data.s11))]
            /\ pc' = "exported1"
    /\ UNCHANGED <<w, app, vna, loc, sig, planVars, hostVars>>

\* NanoVNASaver.exportFileS2P with a filename; data21[i] beyond its end, for
\* a point that is not left out, is an IndexError, which ends the writing
exportFileS2P ==
    /\ IF Len(app.data.s11) = 0
       THEN pc' = "no_data" /\ env' = env
       ELSE LET n == IF Len(app.data.s21) < Len(app.data.s11)
                     THEN Len(app.data.s21) ELSE Len(app.data.s11)
            IN  /\ env' = [env EXCEPT !.file = <<ExportOptions>> \o
                             ExportLines(app.data.s11, app.data.s21, n)]
                /\ pc' = IF \E i \in n + 1 .. Len(app.data.s11) :
                                  \/ i = 1
                                  \/ app.data.s11[i][1] # app.data.s11[i - 1][1]
                         THEN "export_failed"
                         ELSE "exported2"
    /\ UNCHANGED <<w, app, vna, loc, sig, planVars, hostVars>>

ParseOutcomes == {"parsed", "parse_failed", "parse_escaped"}

\* t = Touchstone(filename); t.load(): a TypeError is caught and logged
load_call ==
    /\ LET r == loads(TouchstoneInit, env.file)
       IN  /\ loc' = [loc EXCEPT !.t = r.t]
           /\ sig' = [sig EXCEPT !.exc = r.exc]
           /\ pc' = CASE r.exc = "none" -> "parsed"
                      [] r.exc = "TypeError" -> "parse_failed"
                      [] OTHER -> "parse_escaped"
    /\ UNCHANGED <<w, app, vna, env, planVars, hostVars>>

RECURSIVE Concat(_)
Concat(ss) == IF ss = <<>> THEN <<>> ELSE Head(ss) \o Concat(Tail(ss))

\* the options lines of Init: up to MaxOptions options in every order
OptionWords ==
    {<<Word("hz", 0)>>, <<Word("khz", 0)>>, <<Word("s", 0)>>,
     <<Word("gh", 0)>>, <<Word("ri", 0)>>, <<Word("db", 0)>>,
     <<Word("r", 0), Word("int", 75)>>, <<Word("r", 0)>>, <<Word("x", 0)>>}
OptionLines ==
    {<<Word("#", 0)>> \o Concat(g) :
        g \in UNION {[1 .. n -> OptionWords] : n \in 0 .. MaxOptions}}

\* the data lines of Init: a frequency and 0, 1, 2, 4, 6 or 8 values
DataLine(f, n) ==
    <<Word("float", f)>> \o [j \in 1 .. n |-> Word("float", 10 * f + j)]
DataFiles ==
    UNION {[1 .. n -> {DataLine(f, k) : f \in 0 .. 2,
                                         k \in {0, 1, 2, 4, 6, 8}}] :
           n \in 0 .. MaxDataLines}
DataOptions ==
    {<<Word("#", 0)>>,
     <<Word("#", 0), Word("hz", 0), Word("s", 0), Word("ri", 0)>>,
     <<Word("#", 0), Word("khz", 0), Word("ri", 0)>>,
     <<Word("#", 0), Word("db", 0), Word("hz", 0)>>,
     <<Word("#", 0), Word("ma", 0), Word("hz", 0)>>}

\* the sweeps of Init that are exported: any frequencies, data21 as long as
\* data or one point shorter
ExportData ==
    UNION {{[ref |-> "own",
             s11 |-> [j \in 1 .. n |-> Datapoint(fs[j], 10 + j, 20 + j)],
             s21 |-> [j \in 1 .. m |-> Datapoint(fs[j], 30 + j, 40 + j)]] :
              fs \in [1 .. n -> 0 .. 2], m \in {n, n - 1} \cap Nat} :
           n \in 0 .. MaxDataLines + 1}

InitTouchstone ==
    /\ p_args = [start |-> 1, end |-> 5, points |-> 1, sweeps |-> 1]
    /\ p_sweep = NoObject /\ p_exc = "unbuilt" /\ p_ranges = <<>>
    /\ HostUnused
    /\ w = WorkerInit
    /\ vna = VnaInit
    /\ sig = SigInit
    /\ loc = LocInit
    /\ \/ /\ app = AppInit
          /\ \E o \in OptionLines, c \in {<<>>, <<<<Word("!", 0)>>>>} :
                env = [EnvInit EXCEPT !.file = c \o <<o>>]
       \/ /\ app = AppInit
          /\ \E o \in DataOptions, d \in DataFiles :
                env = [EnvInit EXCEPT !.file = <<o>> \o d]
       \/ /\ env = EnvInit
          /\ \E d \in ExportData : app = [AppInit EXCEPT !.data = d]
    /\ pc = "file"

NextTouchstone == exportFileS1P \/ exportFileS2P \/ load_call

SpecTouchstone == InitTouchstone /\ [][NextTouchstone]_vars

\* the data lines of a Touchstone file: those after the options line that
\* are not blank
DataLinesOf(file) ==
    LET first == CHOOSE i \in 1 .. Len(file) + 1 :
                    /\ i = Len(file) + 1 \/ file[i] = <<>>
                          \/ file[i][1].kind # "!"
                    /\ \A j \in 1 .. i - 1 :
                          file[j] # <<>> /\ file[j][1].kind = "!"
    IN  SelectSeq(SubSeq(file, first + 1, Len(file)), LAMBDA l : l # <<>>)

\* the frequencies of the points of a slot
Freqs(slot) == [j \in 1 .. Len(slot) |-> slot[j][1]]

C26_PairCountsAgree ==
    pc \in ParseOutcomes =>
        LET d == DataLinesOf(env.file)
        IN  (\E i \in 1 .. Len(d) :
                \/ (Len(d[i]) - 1) % 2 = 1
                \/ \E j \in 1 .. i - 1 : Len(d[j]) # Len(d[i]))
               => pc # "parsed"

\* C27: in each of the formats ri, ma and db a file of one data line with k
\* pairs, k in 1 .. 4, loads with exactly one point at the line's scaled
\* frequency in each of the first k slots and none in the others.
C27_PairsFillSlotsInOrder ==
    ( /\ pc \in ParseOutcomes
      /\ Len(env.file) = 2 /\ env.file[1] \in DataOptions
      /\ Len(DataLinesOf(env.file)) = 1
      /\ Len(env.file[2]) \in {3, 5, 7, 9}
      /\ env.file[2][1].v > 0 )
      => /\ pc = "parsed"
         /\ \A k \in 1 .. 4 :
               IF 2 * k < Len(env.file[2])
               THEN /\ Len(loc.t.sdata[k]) = 1
                    /\ loc.t.sdata[k][1][1] =
                          env.file[2][1].v * loc.t.opts.factor
               ELSE loc.t.sdata[k] = <<>>

\* the kinds of the options of an options line in their order: "unit",
\* "parameter", "format", "r" for r with its value, "none" for anything else
RECURSIVE OptionKinds(_, _)
OptionKinds(line, i) ==
    IF i > Len(line) THEN <<>>
    ELSE IF line[i].kind \in {"ghz", "mhz", "khz", "hz"}
    THEN <<"unit">> \o OptionKinds(line, i + 1)
    ELSE IF line[i].kind \in {"s", "y", "z", "g", "h"}
    THEN <<"parameter">> \o OptionKinds(line, i + 1)
    ELSE IF line[i].kind \in {"ma", "db", "ri"}
    THEN <<"format">> \o OptionKinds(line, i + 1)
    ELSE IF line[i].kind = "r" /\ i < Len(line) /\ line[i + 1].kind = "int"
    THEN <<"r">> \o OptionKinds(line, i + 2)
    ELSE <<"none">> \o OptionKinds(line, i + 1)

\* the word of an options line that gives a kind, i counting its words
RECURSIVE OptionAt(_, _, _)
OptionAt(line, kind, i) ==
    IF OptionKinds(line, i)[1] = kind THEN i ELSE OptionAt(line, kind, i + 1)

\* C28: an options line of recognized options, each kind at most once, in
\* any order, is accepted and sets what it names and leaves the defaults
\* (GHz, s, ma, 50) for the rest; a line with an unrecognized word or with a
\* kind given twice is a parse failure.
C28_OptionsInAnyOrder ==
    ( /\ pc \in ParseOutcomes
      /\ env.file # <<>> /\ DataLinesOf(env.file) = <<>>
      /\ env.file[Len(env.file)] \in OptionLines )
      => LET line == env.file[Len(env.file)]
             kinds == OptionKinds(line, 2)
             has(k) == \E i \in 1 .. Len(kinds) : kinds[i] = k
             word(k) == line[OptionAt(line, k, 2)]
         IN  IF /\ \A i \in 1 .. Len(kinds) : kinds[i] # "none"
                /\ \A i, j \in 1 .. Len(kinds) : kinds[i] = kinds[j] => i = j
             THEN /\ pc = "parsed"
                  /\ loc.t.opts.factor =
                        IF has("unit") THEN UNIT_TO_FACTOR[word("unit").kind]
                        ELSE 10^9
                  /\ loc.t.opts.parameter =
                        IF has("parameter") THEN word("parameter").kind
                        ELSE "s"
                  /\ loc.t.opts.format =
                        IF has("format") THEN word("format").kind ELSE "ma"
                  /\ loc.t.opts.resistance =
                        IF has("r") THEN line[OptionAt(line, "r", 2) + 1].v
                        ELSE 50
             ELSE pc = "parse_failed"

\* C29: a sweep with strictly ascending frequencies that was written by
\* exportFileS1P, or with its data21 by exportFileS2P, loads with the same
\* points in the same order in S11, and in S21 for exportFileS2P.
C29_ExportLoadRestoresPoints ==
    [][ ( /\ pc \in {"exported1", "exported2"} /\ pc' \in ParseOutcomes
          /\ \A i \in 2 .. Len(app.data.s11) :
                app.data.s11[i][1] > app.data.s11[i - 1][1] )
          => /\ pc' = "parsed"
             /\ loc'.t.sdata[1] = app.data.s11
             /\ pc = "exported2" => loc'.t.sdata[2] = app.data.s21
      ]_vars

\* C37: after a load that failed no slot of the Touchstone object holds a
\* point of the file (the object was new, so every slot is empty).
C37_FailedLoadExposesNothing ==
    pc = "parse_failed" => \A k \in 1 .. 4 : loc.t.sdata[k] = <<>>

(***************************************************************************)
(* SpecRead: readData alone, inside a readSegment call of a running        *)
(* worker, against an instrument that may give every kind of response,     *)
(* with validation on or off.                                              *)
(***************************************************************************)
InitRead ==
    /\ p_args = [start |-> 1, end |-> 5, points |-> 1, sweeps |-> 1]
    /\ p_sweep = NoObject /\ p_exc = "unbuilt" /\ p_ranges = <<>>
    /\ w = [WorkerInit EXCEPT !.running = TRUE]
    /\ app = AppInit
    /\ \E n \in 1 .. MaxDatapoints, v \in BOOLEAN :
          vna = [VnaInit EXCEPT !.datapoints = n, !.validateInput = v,
                                !.stop = n, !.kinds = AllKinds]
    /\ loc = LocInit
    /\ pc = "data0"
    /\ sig = [SigInit EXCEPT !.touched = TRUE]
    /\ env = [EnvInit EXCEPT !.runs = 1, !.passes = 1]
    /\ HostUnused

NextRead == readData_attempt

SpecRead == InitRead /\ [][NextRead]_vars

\* the (re, im) pairs of a response all of whose lines are well-formed
Pairs(lines) == [j \in 1 .. Len(lines) |-> <<lines[j].a, lines[j].b>>]

\* response kinds readData must not accept under validation
Implausible == {"outA", "outB"}

\* the data the last readData call returned
ReadResult == IF loc.rd.ch = 0 THEN loc.tmp11 ELSE loc.tmp21

\* C3: with validation enabled readData re-reads after every read holding a
\* component of absolute value > 9.5, returns the values of the first valid
\* read when it is among the first 10 attempts, raises the device I/O error
\* after the 10th consecutive failed attempt, and never reads an 11th time.
C3_ValidationRetry ==
    vna.validateInput =>
        /\ loc.count <= MaxTries
        /\ loc.count = MaxTries => pc = "escaped"
        /\ loc.rd.outcome = "returned" =>
              /\ loc.rd.kind \in {"good", "edge", "short"}
              /\ ReadResult =
                    Pairs(Response(loc.rd.kind, loc.rd.ch, vna, env.epoch))
              /\ \A j \in 1 .. Len(ReadResult) :
                    /\ Abs(ReadResult[j][1]) <= ValidLimit
                    /\ Abs(ReadResult[j][2]) <= ValidLimit
        /\ (loc.rd.outcome = "reading" /\ loc.rd.kind \in Implausible) =>
              /\ loc.count < MaxTries
              /\ pc = (IF loc.rd.ch = 0 THEN "data0" ELSE "data1")
        /\ loc.rd.outcome = "IOError" =>
              /\ loc.count = MaxTries /\ loc.rd.tenth
              /\ pc = "escaped" /\ sig.exc = "IOError"

\* nine failed reads, then a value exactly at the bound on the tenth: the
\* call returns it
C3_Witness ==
    /\ vna.validateInput
    /\ loc.rd.outcome = "returned"
    /\ loc.rd.tenth
    /\ loc.rd.kind = "edge"

(***************************************************************************)
(* SpecPlan: construct a Sweep from bounded arguments, then ask it for the *)
(* index range of each of its segments in turn.                            *)
(***************************************************************************)
InitPlan ==
    /\ WorkerUnused
    /\ HostUnused
    /\ p_args \in [start : -1 .. 2, end : -1 .. MaxFreq,
                   points : 0 .. MaxPoints, sweeps : 0 .. MaxSweeps]
    /\ p_sweep = NoObject
    /\ p_exc = "unbuilt"
    /\ p_ranges = <<>>

PlanConstruct ==
    /\ p_exc = "unbuilt"
    /\ LET r == Sweep(p_args.start, p_args.end, p_args.points, p_args.sweeps)
       IN  /\ p_sweep' = r.obj
           /\ p_exc' = r.exc
    /\ UNCHANGED <<p_args, p_ranges, workVars, hostVars>>

PlanIndexRange ==
    /\ p_exc = "none"
    /\ Len(p_ranges) < p_sweep.sweeps
    /\ p_ranges' = Append(p_ranges, get_index_range(p_sweep, Len(p_ranges)))
    /\ UNCHANGED <<p_args, p_sweep, p_exc, workVars, hostVars>>

NextPlan == PlanConstruct \/ PlanIndexRange

SpecPlan == InitPlan /\ [][NextPlan]_vars

\* every segment of a constructed plan has been asked for
PlanTiled == p_exc = "none" /\ Len(p_ranges) = p_sweep.sweeps

\* the segments follow each other one step apart, starting at start
PlanContiguous ==
    /\ p_ranges[1][1] = p_sweep.start
    /\ \A i \in 1 .. Len(p_ranges) - 1 :
           p_ranges[i + 1][1] = p_ranges[i][2] + p_sweep.step
    /\ \A i \in 1 .. Len(p_ranges) : p_ranges[i][1] <= p_ranges[i][2]

PlanLastStop == p_ranges[Len(p_ranges)][2]

\* C1 (as stated): for every valid Sweep the segments tile the span: segment
\* 0 starts at start, each next segment starts one step after the previous
\* stop, the last segment stops exactly at end, and step >= 1.
C1_TilesExactly ==
    PlanTiled =>
        /\ PlanContiguous
        /\ PlanLastStop = p_sweep.end
        /\ p_sweep.step >= 1

\* C1 (amended): for every valid Sweep, segment 0 starts at start, each next
\* segment starts one step after the previous stop, step >= 1, and the last
\* segment stops at start + (points*sweeps - 1)*step, which is at most end and
\* less than points*sweeps - 1 Hz below it; it is end exactly when the span is
\* a multiple of points*sweeps - 1.
C1_TilesUpToTruncation ==
    PlanTiled =>
        LET n == p_sweep.points * p_sweep.sweeps - 1
        IN  /\ PlanContiguous
            /\ p_sweep.step >= 1
            /\ PlanLastStop = p_sweep.start + n * p_sweep.step
            /\ PlanLastStop <= p_sweep.end
            /\ p_sweep.end - PlanLastStop < n
            /\ (PlanLastStop = p_sweep.end) <=> (p_sweep.span % n = 0)

\* a multi-segment plan, fully asked for, whose span is no multiple of
\* points*sweeps - 1
C1_Witness ==
    /\ PlanTiled
    /\ p_sweep.sweeps >= 2
    /\ p_sweep.points >= 2
    /\ p_sweep.span % (p_sweep.points * p_sweep.sweeps - 1) # 0


\* C11: constructing a Sweep never yields an invalid plan: whenever start,
\* end, points or sweeps is not positive, end <= start, or the step is below
\* 1 or undefined (points*sweeps = 1), the constructor raises ValueError; a
\* constructor that returns has built a valid plan.
C11_InvalidPlanRaisesValueError ==
    p_exc # "unbuilt" =>
        LET valid == PlanValid(p_args.start, p_args.end, p_args.points,
                               p_args.sweeps)
        IN  /\ ~valid => p_exc = "ValueError"
            /\ p_exc = "none" => valid

(***************************************************************************)
(* SpecRF: the plan of SpecPlan for a few argument tuples, the documented  *)
(* example among them, and RFTools.gain and RFTools.calculateVSWR applied  *)
(* to one bounded sample.                                                  *)
(***************************************************************************)
ExampleArgs ==
    [start |-> 1000000, end |-> 2000000, points |-> 101, sweeps |-> 1]

\* samples with integer parts whose magnitude is an integer
SquareSamples ==
    {d \in (-MaxMag .. MaxMag) \X (-MaxMag .. MaxMag) :
        \E m \in 0 .. 2 * MaxMag : m * m = d[1] * d[1] + d[2] * d[2]}

InitRF ==
    /\ HostUnused
    /\ p_args \in {ExampleArgs}
                   \cup [start : {1}, end : {MaxFreq}, points : 1 .. MaxPoints,
                         sweeps : 1 .. MaxSweeps]
    /\ p_sweep = NoObject
    /\ p_exc = "unbuilt"
    /\ p_ranges = <<>>
    /\ \E d \in SquareSamples :
           w = [WorkerInit EXCEPT !.data11 = <<Datapoint(1, d[1], d[2])>>]
    /\ app = AppInit
    /\ vna = VnaInit
    /\ loc = LocInit
    /\ pc = "idle"
    /\ sig = SigInit
    /\ env = EnvInit

\* a caller asks RFTools for the gain and the VSWR of the first sample
RFTools_call ==
    /\ pc = "idle"
    /\ pc' = "rf"
    /\ loc' = [loc EXCEPT !.value = [gain |-> gain(w.data11[1]),
                                     vswr |-> calculateVSWR(w.data11[1])]]
    /\ UNCHANGED <<planVars, w, app, vna, sig, env, hostVars>>

NextRF == PlanConstruct \/ PlanIndexRange \/ RFTools_call

SpecRF == InitRF /\ [][NextRF]_vars

\* C31: a sweep from 1,000,000 to 2,000,000 with 101 points in one segment has
\* step 10,000 and the single segment (1,000,000, 2,000,000); a sample with
\* re = 0 and im = 0 has VSWR 1, and gain returns the number 0 for it by its
\* zero-magnitude case.
C31_ExampleSweepAndMatchedSample ==
    /\ (p_args = ExampleArgs /\ p_exc # "unbuilt") =>
           /\ p_exc = "none"
           /\ p_sweep.step = 10000
           /\ p_sweep.sweeps = 1
           /\ Len(p_ranges) = 1 => p_ranges[1] = <<1000000, 2000000>>
    /\ (pc = "rf" /\ w.data11[1][2] = 0 /\ w.data11[1][3] = 0) =>
           /\ loc.value.vswr[1] = loc.value.vswr[2]
           /\ loc.value.vswr[2] # 0
           /\ loc.value.gain = [kind |-> "number", of |-> 0]

\* the example plan fully asked for, and the matched sample evaluated
C31_Witness ==
    /\ p_args = ExampleArgs
    /\ Len(p_ranges) = 1
    /\ pc = "rf"
    /\ w.data11[1][2] = 0
    /\ w.data11[1][3] = 0

====
